---- MODULE Spec2Model ----
(***************************************************************************)
(* Verification model of the Raydium SDK V2 transaction pipeline           *)
(* (src/common/txTool/txTool.ts).                                          *)
(*                                                                         *)
(* Part 1 models the sequential `execute` of the four multi-transaction    *)
(* builds (buildMultiTx, buildV0MultiTx, sizeCheckBuild, sizeCheckBuildV0)  *)
(* in both signing modes.  JavaScript is single threaded: every action is  *)
(* one run-to-completion segment of the event loop (from the resumption of *)
(* an await, a timer tick or a subscription callback up to the next await  *)
(* or return).  The ledger, the RPC node and the timers are the            *)
(* environment.                                                            *)
(*                                                                         *)
(* Parts 2 to 6 model the builder itself, each under a specification of    *)
(* its own: the split loop of sizeCheckBuild / sizeCheckBuildV0            *)
(* (SpecSplit), the build entry points up to the choice of signing mode    *)
(* (SpecEntry), the signing of a batch (SpecSigning), addInstruction       *)
(* (SpecBuilder) and calComputeBudget (SpecBudget).                        *)
(* Parts 7 and 8 model the fee oracle conversion (SpecFee) and the         *)
(* lookup-table resolution of the versioned builds (SpecTables).           *)
(*                                                                         *)
(* Parts 9 to 13 model the CLMM pool utilities                             *)
(* (src/raydium/clmm/utils/pool.ts): the reward streams (SpecReward), the  *)
(* tick-array bitmap scan (SpecScan) and the pool hydration                *)
(* (SpecHydrate), the swap quotes (SpecQuote) and their slippage bounds    *)
(* (SpecSlippage).  Parts 14 and 15 model the availability flags and the   *)
(* epoch cache of src/raydium/raydium.ts (SpecAvailability, SpecEpoch).    *)
(***************************************************************************)
EXTENDS Integers, Sequences, FiniteSets, TLC

\* ---------------------------------------------------------------- bounds
MaxTx == 4          \* largest batch (allTransactions.length)
MaxSkip == 1        \* largest skipTxCount supplied by the caller
MaxPolls == 2       \* getTransaction requests that may be in flight at once
MaxCount == 2       \* history counters saturate here

Builds == {"buildMultiTx", "buildV0MultiTx", "sizeCheckBuild", "sizeCheckBuildV0"}
Modes == {"keypair", "signAll"}

VARIABLES
  build,              \* which build's execute closure is running
  mode,               \* owner.isKeyPair ("keypair") or signAllTransactions ("signAll")
  loopMultiTxStatus,  \* TxBuilder.loopMultiTxStatus
  skipTxCount,        \* executeParams.skipTxCount
  nTx,                \* allTransactions.length
  execPc,             \* position of the execute body
  kpIdx,              \* keypair loop: index of the transaction being sent
  i,                  \* `let i = 0` of the external-signer sequential path
  processedTxs,       \* `const processedTxs: TxUpdateParams[]`
  calls,              \* checkSendTx invocations that issued a send (their closures)
  awaited,            \* the invocation execute awaits (0: none)
  txIds,              \* txIds returned by execute
  sendCalls,          \* per transaction: broadcast calls issued to the RPC node
  ledger,             \* per transaction: outcome on the ledger
  reported,           \* <<txId, status>> pairs that were passed to onTxUpdate
  terminalSeen,       \* transactions whose terminal state the executor has observed
  statusSets,         \* per transaction: executions of the status assignment in cbk
  nextSends,          \* per transaction: checkSendTx calls made by its cbk
  errors,             \* exceptions raised by the execute machinery
  split,              \* Part 2: one run of the sizeCheckBuild / sizeCheckBuildV0 split loop
  entry,              \* Part 3: one call of a build entry point without signing capability
  signing,            \* Part 4: signatures carried by the transactions of a batch
  builder,            \* Part 5: the TxBuilder lists filled by addInstruction
  budget,             \* Part 6: one call of calComputeBudget
  fee,                \* Part 7: one call of getComputeBudgetConfig
  tables,             \* Part 8: the lookup-table resolution of buildV0 / sizeCheckBuildV0
  reward,             \* Part 9: one reward stream passed to updatePoolRewardInfos
  scan,               \* Part 10: one call of nextInitializedTickArrayStartIndex
  hydrate,            \* Part 11: one call of fetchComputeMultipleClmmInfo
  quote,              \* Part 12: one pool and two quotes on it
  slip,               \* Part 13: the slippage bound of one quote
  avail,              \* Part 14: Raydium.availability and the last fetchAvailabilityStatus
  epoch               \* Part 15: the epoch cache of Raydium.fetchEpochInfo

\* the variables of Part 1 (sequential execute)
execVars == <<build, mode, loopMultiTxStatus, skipTxCount, nTx, execPc, kpIdx, i,
              processedTxs, calls, awaited, txIds, sendCalls, ledger, reported,
              terminalSeen, statusSets, nextSends, errors>>

\* the variables of the other parts; each part leaves the others idle
lateParts == <<quote, slip, avail, epoch>>
parts == <<split, entry, signing, builder, budget, fee, tables, reward, scan, hydrate, lateParts>>

vars == <<execVars, parts>>

\* what a running execute never changes
config == <<build, mode, loopMultiTxStatus, skipTxCount, nTx, parts>>

Idle == "idle"

LatePartsIdle ==
  /\ quote = Idle
  /\ slip = Idle
  /\ avail = Idle
  /\ epoch = Idle

TxIdx == 0 .. (MaxTx - 1)
Range(s) == {s[x] : x \in DOMAIN s}
Bump(c) == IF c < MaxCount THEN c + 1 ELSE c

\* txId of transaction k (its first signature); "" is 0, "tx skipped" is -1
TxIdOf(k) == k + 1
EmptyTxId == 0
SkippedTxId == -1

\* ------------------------------------------------------ TxUpdateParams
\* entry pushed after a successful broadcast
SentEntryAsSuccess(txId, signedTx) == [txId |-> txId, status |-> "success", signedTx |-> signedTx]
SentEntry(txId, signedTx) == [txId |-> txId, status |-> "sent", signedTx |-> signedTx]
\* entry pushed for a transaction below skipTxCount
SkippedEntry(signedTx) == [txId |-> EmptyTxId, status |-> "success", signedTx |-> signedTx]

\* processedTxs.findIndex((tx) => tx.txId === txId), 1-based, 0 for -1
findIndex(list, txId) ==
  IF \E x \in DOMAIN list : list[x].txId = txId
  THEN CHOOSE x \in DOMAIN list :
         /\ list[x].txId = txId
         /\ \A y \in DOMAIN list : list[y].txId = txId => x <= y
  ELSE 0

\* the mutable state a synchronous segment works on
Globals == [i |-> i, processedTxs |-> processedTxs, calls |-> calls,
            sendCalls |-> sendCalls, reported |-> reported,
            statusSets |-> statusSets, nextSends |-> nextSends,
            terminalSeen |-> terminalSeen, errors |-> errors]

\* onTxUpdate?.([...processedTxs])
onTxUpdate(g) ==
  [g EXCEPT !.reported = @ \cup {<<e.txId, e.status>> : e \in Range(g.processedTxs)}]

NewCall(k) == [pc |-> "sending", tx |-> k, confirmed |-> FALSE,
               intervalId |-> "null", subSignatureId |-> "null",
               polls |-> 0, pollThrew |-> FALSE, pollFound |-> FALSE,
               notified |-> FALSE]

\* The delivery history (pollThrew, pollFound, notified) is kept for the
\* invocations of the transaction broadcast last; it is dropped when a later
\* transaction is broadcast, which happens only after the status was set.
Forget(cs, k) ==
  [x \in DOMAIN cs |->
     IF cs[x].tx = k THEN cs[x]
     ELSE [cs[x] EXCEPT !.pollThrew = FALSE, !.pollFound = FALSE, !.notified = FALSE]]
Current(cs, id) == cs[id].tx = cs[Len(cs)].tx

\* `await this.connection.sendRawTransaction(signedTxs[i].serialize(), ...)`:
\* the call is issued synchronously; signedTxs[i] undefined raises a TypeError
sendTx(g) ==
  IF g.i >= nTx
  THEN [g EXCEPT !.errors = @ \cup {"TypeError"}]
  ELSE [g EXCEPT !.sendCalls[g.i] = Bump(@),
                 !.calls = Append(Forget(@, g.i), NewCall(g.i))]

\* which builds consult skipTxCount inside checkSendTx
SkipsInCheckSendTx == build \in {"sizeCheckBuild", "sizeCheckBuildV0"}
\* sizeCheckBuildV0 returns after the recursive call, sizeCheckBuild falls through
ReturnsAfterSkip == build = "sizeCheckBuildV0"

\* synchronous part of checkSendTx, up to its first await
RECURSIVE checkSendTx(_)
checkSendTx(g) ==
  IF g.i >= nTx THEN g
  ELSE IF SkipsInCheckSendTx /\ g.i < skipTxCount
  THEN LET g1 == onTxUpdate([g EXCEPT !.processedTxs = Append(@, SkippedEntry(g.i))])
           g2 == checkSendTx([g1 EXCEPT !.i = @ + 1])
       IN  IF ReturnsAfterSkip THEN g2 ELSE sendTx(g2)
  ELSE sendTx(g)

IsTerminal(status) == status \in {"success", "error"}

\* const cbk = (signatureResult: SignatureResult): void => {...}
cbkNoGuard(g, id, err) ==
  LET c == g.calls[id]
      g0 == [g EXCEPT !.calls[id].intervalId = IF @ = "null" THEN @ ELSE "cleared",
                      !.calls[id].subSignatureId = IF @ = "null" THEN @ ELSE "cleared"]
      targetTxIdx == findIndex(g0.processedTxs, TxIdOf(c.tx))
      g1 == IF targetTxIdx > 0
            THEN [g0 EXCEPT !.processedTxs[targetTxIdx].status = IF err THEN "error" ELSE "success",
                            !.statusSets[c.tx] = Bump(@),
                            !.terminalSeen = @ \cup {c.tx}]
            ELSE g0
      g2 == onTxUpdate(g1)
  IN  IF ~err THEN checkSendTx([g2 EXCEPT !.nextSends[c.tx] = Bump(@)]) ELSE g2

cbkContinueOnError(g, id, err) ==
  LET c == g.calls[id]
      g0 == [g EXCEPT !.calls[id].intervalId = IF @ = "null" THEN @ ELSE "cleared",
                      !.calls[id].subSignatureId = IF @ = "null" THEN @ ELSE "cleared"]
      targetTxIdx == findIndex(g0.processedTxs, TxIdOf(c.tx))
  IN  IF targetTxIdx > 0 /\ IsTerminal(g0.processedTxs[targetTxIdx].status)
      THEN g0
      ELSE LET g1 == IF targetTxIdx > 0
                     THEN [g0 EXCEPT !.processedTxs[targetTxIdx].status = IF err THEN "error" ELSE "success",
                                     !.statusSets[c.tx] = Bump(@),
                                     !.terminalSeen = @ \cup {c.tx}]
                     ELSE g0
               g2 == onTxUpdate(g1)
           IN  checkSendTx([g2 EXCEPT !.nextSends[c.tx] = Bump(@)])

cbk(g, id, err) ==
  LET c == g.calls[id]
      g0 == [g EXCEPT !.calls[id].intervalId = IF @ = "null" THEN @ ELSE "cleared",
                      !.calls[id].subSignatureId = IF @ = "null" THEN @ ELSE "cleared"]
      targetTxIdx == findIndex(g0.processedTxs, TxIdOf(c.tx))
  IN  IF targetTxIdx > 0 /\ IsTerminal(g0.processedTxs[targetTxIdx].status)
      THEN g0
      ELSE LET g1 == IF targetTxIdx > 0
                     THEN [g0 EXCEPT !.processedTxs[targetTxIdx].status = IF err THEN "error" ELSE "success",
                                     !.statusSets[c.tx] = Bump(@),
                                     !.terminalSeen = @ \cup {c.tx}]
                     ELSE g0
               g2 == onTxUpdate(g1)
           IN  IF ~err THEN checkSendTx([g2 EXCEPT !.nextSends[c.tx] = Bump(@)]) ELSE g2

\* writes a Globals record back to the variables
Commit(g) ==
  /\ i' = g.i
  /\ processedTxs' = g.processedTxs
  /\ calls' = g.calls
  /\ sendCalls' = g.sendCalls
  /\ reported' = g.reported
  /\ statusSets' = g.statusSets
  /\ nextSends' = g.nextSends
  /\ terminalSeen' = g.terminalSeen
  /\ errors' = g.errors

\* ------------------------------------------------------------ keypair
\* builds whose keypair loop honours skipTxCount (`if (i <= skipTxCount) continue`)
KpSkips == build \in {"buildMultiTx", "sizeCheckBuild", "sizeCheckBuildV0"}
\* ... and push "tx skipped" for a skipped transaction
KpPushesSkipped == build \in {"sizeCheckBuild", "sizeCheckBuildV0"}

\* `for (const tx of allTransactions)` from transaction k up to the next send
RECURSIVE kpLoop(_, _)
kpLoop(k, ids) ==
  IF k >= nTx THEN [pc |-> "returned", k |-> k, txIds |-> ids]
  ELSE IF KpSkips /\ k + 1 <= skipTxCount
  THEN kpLoop(k + 1, IF KpPushesSkipped THEN Append(ids, SkippedTxId) ELSE ids)
  ELSE [pc |-> "kpSending", k |-> k, txIds |-> ids]

\* --------------------------------------------------------------- Init
Init ==
  /\ build \in Builds
  /\ mode \in Modes
  /\ loopMultiTxStatus \in BOOLEAN
  /\ nTx \in 1 .. MaxTx
  /\ skipTxCount \in 0 .. MaxSkip
  /\ skipTxCount <= nTx
  /\ execPc = "start"
  /\ kpIdx = 0
  /\ i = 0
  /\ processedTxs = <<>>
  /\ calls = <<>>
  /\ awaited = 0
  /\ txIds = <<>>
  /\ sendCalls = [k \in TxIdx |-> 0]
  /\ ledger = [k \in TxIdx |-> "none"]
  /\ reported = {}
  /\ terminalSeen = {}
  /\ statusSets = [k \in TxIdx |-> 0]
  /\ nextSends = [k \in TxIdx |-> 0]
  /\ errors = {}
  /\ split = Idle
  /\ entry = Idle
  /\ signing = Idle
  /\ builder = Idle
  /\ budget = Idle
  /\ fee = Idle
  /\ tables = Idle
  /\ reward = Idle
  /\ scan = Idle
  /\ hydrate = Idle
  /\ LatePartsIdle

\* builds whose external-signer path does `await checkSendTx()`
AwaitsFirstSend == build \in {"buildMultiTx", "sizeCheckBuild"}

\* ------------------------------------------------------------ actions
\* execute({sequentially: true, ...}) with owner.isKeyPair: up to the first send
ExecuteKeypair ==
  /\ execPc = "start"
  /\ mode = "keypair"
  /\ LET r == kpLoop(0, <<>>)
     IN  /\ execPc' = r.pc
         /\ kpIdx' = r.k
         /\ txIds' = r.txIds
         /\ sendCalls' = IF r.pc = "kpSending" THEN [sendCalls EXCEPT ![r.k] = Bump(@)] ELSE sendCalls
  /\ UNCHANGED <<config, i, processedTxs, calls, awaited, ledger, reported,
                 terminalSeen, statusSets, nextSends, errors>>

\* the broadcast of the keypair loop is accepted by the RPC node
KpSendResolve ==
  /\ execPc = "kpSending"
  /\ execPc' = "kpConfirming"
  /\ UNCHANGED <<config, kpIdx, i, processedTxs, calls, awaited, txIds, sendCalls,
                 ledger, reported, terminalSeen, statusSets, nextSends, errors>>

\* the broadcast of the keypair loop rejects: execute rejects
KpSendReject ==
  /\ execPc = "kpSending"
  /\ execPc' = "threw"
  /\ errors' = errors \cup {"SendError"}
  /\ UNCHANGED <<config, kpIdx, i, processedTxs, calls, awaited, txIds, sendCalls,
                 ledger, reported, terminalSeen, statusSets, nextSends>>

\* sendAndConfirmTransaction / confirmTransaction settles
KpConfirm ==
  /\ execPc = "kpConfirming"
  /\ ledger[kpIdx] # "none"
  /\ terminalSeen' = terminalSeen \cup {kpIdx}
  /\ IF ledger[kpIdx] = "ok"
     THEN LET r == kpLoop(kpIdx + 1, Append(txIds, TxIdOf(kpIdx)))
          IN  /\ execPc' = r.pc
              /\ kpIdx' = r.k
              /\ txIds' = r.txIds
              /\ sendCalls' = IF r.pc = "kpSending" THEN [sendCalls EXCEPT ![r.k] = Bump(@)] ELSE sendCalls
              /\ errors' = errors
     ELSE /\ execPc' = "threw"
          /\ errors' = errors \cup {"ConfirmError"}
          /\ UNCHANGED <<kpIdx, txIds, sendCalls>>
  /\ UNCHANGED <<config, i, processedTxs, calls, awaited, ledger, reported,
                 statusSets, nextSends>>

\* execute({sequentially: true, ...}) with signAllTransactions: sign, then the
\* first checkSendTx() up to its first await
ExecuteSignAll ==
  /\ execPc = "start"
  /\ mode = "signAll"
  /\ LET g == checkSendTx(Globals)
     IN  /\ Commit(g)
         /\ IF ~AwaitsFirstSend
            THEN execPc' = "returned" /\ awaited' = 0
            ELSE IF "TypeError" \in g.errors
            THEN execPc' = "threw" /\ awaited' = 0
            ELSE IF Len(g.calls) = 0
            THEN execPc' = "returned" /\ awaited' = 0
            ELSE execPc' = "awaiting" /\ awaited' = Len(g.calls)
  /\ UNCHANGED <<config, kpIdx, txIds, ledger>>

\* `await sendRawTransaction(...)` of invocation id resolves: push the entry,
\* report it, advance i, start the poll timer and the signature subscription
SendResolve(id) ==
  /\ calls[id].pc = "sending"
  /\ LET c == calls[id]
         g0 == Globals
         g1 == onTxUpdate([g0 EXCEPT !.processedTxs = Append(@, SentEntry(TxIdOf(c.tx), g0.i))])
         g2 == [g1 EXCEPT !.i = @ + 1,
                          !.calls[id].pc = "waiting",
                          !.calls[id].confirmed = FALSE,
                          !.calls[id].intervalId = IF loopMultiTxStatus THEN "active" ELSE "null",
                          !.calls[id].subSignatureId = "active"]
     IN  /\ Commit(g2)
         /\ IF id = awaited /\ execPc = "awaiting"
            THEN /\ execPc' = "returned"
                 /\ txIds' = [x \in DOMAIN g2.processedTxs |-> g2.processedTxs[x].txId]
            ELSE UNCHANGED <<execPc, txIds>>
  /\ UNCHANGED <<config, kpIdx, awaited, ledger>>

\* `await sendRawTransaction(...)` of invocation id rejects: checkSendTx rejects
SendReject(id) ==
  /\ calls[id].pc = "sending"
  /\ calls' = [calls EXCEPT ![id].pc = "failed"]
  /\ errors' = errors \cup {"SendError"}
  /\ execPc' = IF id = awaited /\ execPc = "awaiting" THEN "threw" ELSE execPc
  /\ UNCHANGED <<config, kpIdx, i, processedTxs, awaited, txIds, sendCalls, ledger,
                 reported, terminalSeen, statusSets, nextSends>>

\* the ledger processes a broadcast transaction
Land(k) ==
  /\ k < nTx
  /\ sendCalls[k] > 0
  /\ ledger[k] = "none"
  /\ \E r \in {"ok", "err"} : ledger' = [ledger EXCEPT ![k] = r]
  /\ UNCHANGED <<config, execPc, kpIdx, i, processedTxs, calls, awaited, txIds, sendCalls,
                 reported, terminalSeen, statusSets, nextSends, errors>>

\* the onSignature callback of invocation id runs
Notify(id) ==
  /\ calls[id].subSignatureId = "active"
  /\ ledger[calls[id].tx] # "none"
  /\ LET g0 == [Globals EXCEPT !.calls[id].notified = Current(calls, id)]
     IN  IF calls[id].confirmed
         THEN Commit([g0 EXCEPT !.calls[id].subSignatureId = "cleared"])
         ELSE Commit(cbk([g0 EXCEPT !.calls[id].confirmed = TRUE], id, ledger[calls[id].tx] = "err"))
  /\ UNCHANGED <<config, execPc, kpIdx, awaited, txIds, ledger>>

InFlightPolls == LET RECURSIVE Sum(_)
                     Sum(n) == IF n = 0 THEN 0 ELSE calls[n].polls + Sum(n - 1)
                 IN  Sum(Len(calls))

\* the setInterval callback of invocation id runs up to `await getTransaction`
Tick(id) ==
  /\ calls[id].intervalId = "active"
  /\ IF calls[id].confirmed
     THEN calls' = [calls EXCEPT ![id].intervalId = "cleared"]
     ELSE /\ InFlightPolls < MaxPolls
          /\ calls' = [calls EXCEPT ![id].polls = @ + 1]
  /\ UNCHANGED <<config, execPc, kpIdx, i, processedTxs, awaited, txIds, sendCalls, ledger,
                 reported, terminalSeen, statusSets, nextSends, errors>>

\* a getTransaction request of invocation id settles: no result yet, a result, or a throw
PollReturn(id) ==
  /\ calls[id].polls > 0
  /\ LET g0 == [Globals EXCEPT !.calls[id].polls = @ - 1]
     IN  \/ Commit(g0)
         \/ /\ ledger[calls[id].tx] # "none"
            /\ Commit(cbk([g0 EXCEPT !.calls[id].confirmed = TRUE,
                                     !.calls[id].intervalId = "cleared",
                                     !.calls[id].pollFound = Current(calls, id)],
                          id, ledger[calls[id].tx] = "err"))
         \/ Commit([g0 EXCEPT !.calls[id].confirmed = TRUE,
                              !.calls[id].intervalId = "cleared",
                              !.calls[id].pollThrew = Current(calls, id)])
  /\ UNCHANGED <<config, execPc, kpIdx, awaited, txIds, ledger>>

Next ==
  \/ ExecuteKeypair
  \/ KpSendResolve
  \/ KpSendReject
  \/ KpConfirm
  \/ ExecuteSignAll
  \/ \E id \in DOMAIN calls : SendResolve(id)
  \/ \E id \in DOMAIN calls : SendReject(id)
  \/ \E k \in TxIdx : Land(k)
  \/ \E id \in DOMAIN calls : Notify(id)
  \/ \E id \in DOMAIN calls : Tick(id)
  \/ \E id \in DOMAIN calls : PollReturn(id)

Spec == Init /\ [][Next]_vars

TypeOK ==
  /\ i \in 0 .. (2 * MaxTx + 2)
  /\ \A k \in TxIdx : sendCalls[k] \in 0 .. MaxCount

\* ===================================================================
\* Properties of sequential execution
\* ===================================================================

\* status of the processedTxs entry a confirmation of transaction k resolves to
StatusOf(k) ==
  LET x == findIndex(processedTxs, TxIdOf(k))
  IN  IF x = 0 THEN "none" ELSE processedTxs[x].status

\* the executor has seen transaction k reach success or error; a transaction
\* below skipTxCount is one the caller declares confirmed by an earlier run
Terminal(k, seen) == k \in seen \/ k < skipTxCount

\* C1: in every sequential execute path, the transaction at batch index k+1 is
\* not broadcast before the transaction at index k has reached a terminal
\* state (success or error), whatever the interleaving of send completions,
\* notifications and poll results.
C1_SequentialOrder ==
  [][\A k \in TxIdx :
       (k > 0 /\ sendCalls'[k] > sendCalls[k]) => Terminal(k - 1, terminalSeen')]_vars

\* C2: within one sequential execute call no transaction of the batch is
\* broadcast more than once, for any skipTxCount (first half of the claim; the
\* second half, exactly one broadcast per transaction at index >= skipTxCount
\* when everything succeeds, presupposes it).
C2_BroadcastAtMostOnce == \A k \in TxIdx : sendCalls[k] <= 1

\* C3: a sequential execute with skipTxCount = k never broadcasts any of the
\* first k transactions, for every build and both signing modes.
C3_SkippedNeverBroadcast == \A k \in TxIdx : k < skipTxCount => sendCalls[k] = 0

\* C4: with polling enabled, when both the signature notification and a
\* getTransaction poll have delivered a result for a broadcast transaction (in
\* either order, polls may overlap), its status was set exactly once and its
\* confirmation triggered the send of the next transaction at most once.
C4_ResolvedOnce ==
  \A id \in DOMAIN calls :
     (calls[id].notified /\ calls[id].pollFound) =>
        /\ statusSets[calls[id].tx] = 1
        /\ nextSends[calls[id].tx] <= 1

C4_Witness ==
  \E id \in DOMAIN calls :
     /\ calls[id].notified
     /\ calls[id].pollFound
     /\ calls[id].polls > 0
     /\ ledger[calls[id].tx] = "ok"
     /\ statusSets[calls[id].tx] = 1
     /\ nextSends[calls[id].tx] = 1

\* C5: the channels are redundant: when a getTransaction poll has thrown for a
\* broadcast transaction and its signature notification has been delivered,
\* the transaction has status success or error and, on success, the next
\* transaction was sent.
C5_ChannelsRedundant ==
  \A id \in DOMAIN calls :
     (calls[id].pollThrew /\ calls[id].notified) =>
        /\ IsTerminal(StatusOf(calls[id].tx))
        /\ (StatusOf(calls[id].tx) = "success" => nextSends[calls[id].tx] >= 1)

\* C6: no poll timer and no signature listener of a transaction whose status
\* is success or error remains registered.
C6_NoLeakAfterTerminal ==
  \A id \in DOMAIN calls :
     IsTerminal(StatusOf(calls[id].tx)) =>
        /\ calls[id].intervalId # "active"
        /\ calls[id].subSignatureId # "active"

C8_EntryLifecycle ==
  [][/\ Len(processedTxs') >= Len(processedTxs)
     /\ \A x \in DOMAIN processedTxs :
           /\ processedTxs'[x].txId = processedTxs[x].txId
           /\ processedTxs'[x].status # processedTxs[x].status
                 => /\ processedTxs[x].status = "sent"
                    /\ IsTerminal(processedTxs'[x].status)
     /\ \A x \in DOMAIN processedTxs' :
           (x > Len(processedTxs) /\ processedTxs'[x].txId # EmptyTxId)
              => processedTxs'[x].status = "sent"]_vars

C8_Witness ==
  \E x \in DOMAIN processedTxs, y \in DOMAIN processedTxs :
     /\ processedTxs[x].txId # EmptyTxId
     /\ processedTxs[x].status = "success"
     /\ processedTxs[y].status = "error"

\* C9: sequential execution reports every broadcast transaction to onTxUpdate
\* with status sent and with its terminal status, in both signing modes.
C9_EveryTxReported ==
  \A k \in terminalSeen :
     /\ <<TxIdOf(k), "sent">> \in reported
     /\ \E s \in {"success", "error"} : <<TxIdOf(k), s>> \in reported

\* C10: in external-signer sequential execution the failure of a transaction
\* after the first (its broadcast call rejects, or its confirmation reports an
\* error) is reported through onTxUpdate as an entry with status error, and
\* the success statuses of earlier transactions stay intact.
C10_FailureReported ==
  [][mode = "signAll" =>
       /\ \A id \in DOMAIN calls' :
             (calls'[id].pc = "failed" /\ (calls'[id].tx - 1) \in terminalSeen')
                => <<TxIdOf(calls'[id].tx), "error">> \in reported'
       /\ \A x \in DOMAIN processedTxs' :
             processedTxs'[x].status = "error"
                => <<processedTxs'[x].txId, "error">> \in reported'
       /\ \A x \in DOMAIN processedTxs :
             processedTxs[x].status = "success" => processedTxs'[x].status = "success"]_vars

\* C38: a sequential external-signer execute of sizeCheckBuild or
\* sizeCheckBuildV0 with skipTxCount equal to the number of transactions
\* broadcasts nothing, reports every transaction with status success and
\* completes without raising an error.
C38_ResumeCompletedBatch ==
  (/\ build \in {"sizeCheckBuild", "sizeCheckBuildV0"}
   /\ mode = "signAll"
   /\ skipTxCount = nTx
   /\ execPc # "start") =>
    /\ \A k \in 0 .. (nTx - 1) : sendCalls[k] = 0
    /\ Len(processedTxs) = nTx
    /\ \A e \in Range(processedTxs) : e.status = "success"
    /\ errors = {}
    /\ execPc = "returned"

\* ===================================================================
\* Part 2: the split loop of sizeCheckBuild and sizeCheckBuildV0
\*
\* An instruction is identified by its position in allInstructions (the
\* code compares instruction objects by reference).  A transaction is the
\* sequence of the instructions added to it; the instructions returned by
\* addComputeBudget carry the negative ids of ComputeBudgetIns.
\* ===================================================================
MaxLen == 4         \* longest instruction list of mixed kinds
MaxSplits == 2      \* most split points in splitIns
MaxLong == 13       \* longest list of small instructions

\* `instructionQueue.length < 12`
MaxInsPerTxEleven == 12 - 1
MaxInsPerTx == 12

\* kinds of instruction by serialized size; "halfCosigned" has a signer
\* account whose keypair is not in this.signers
InsKinds == {"small", "half", "halfCosigned", "huge"}
SplitBuilds == {"sizeCheckBuild", "sizeCheckBuildV0"}

PacketDataSize == 1232      \* transaction size limit in bytes
SignatureBytes == 65        \* bytes a signer adds to a transaction
MessageBaseBytes == 35      \* message header, payer key and blockhash
ComputeBudgetBytes == 60    \* the instructions of addComputeBudget

SizeOf(kind) ==
  CASE kind = "small" -> 40
    [] kind = "half" -> 500
    [] kind = "halfCosigned" -> 500
    [] kind = "huge" -> 1300

\* i.keys.filter((ii) => ii.isSigner) other than the payer
SignersOf(kind) == IF kind = "halfCosigned" THEN {"cosigner"} ELSE {}

\* addComputeBudget(computeBudgetConfig).instructions
ComputeBudgetIns == <<-1, -2>>
IsComputeBudget(x) == x < 0

RECURSIVE SumSizes(_, _)
SumSizes(ins, q) ==
  IF q = <<>> THEN 0
  ELSE (IF IsComputeBudget(Head(q)) THEN 0 ELSE SizeOf(ins[Head(q)])) + SumSizes(ins, Tail(q))

ComputeBudgetSize(q) == IF \E x \in Range(q) : IsComputeBudget(x) THEN ComputeBudgetBytes ELSE 0

\* the signer keys of a list of instructions (payer aside)
signerStrs(ins, q) == UNION {SignersOf(ins[x]) : x \in {y \in Range(q) : ~IsComputeBudget(y)}}

\* `.map((i) => signerKey[i]).filter((i) => i !== undefined)`: this.signers
\* holds no keypair for the cosigner
heldSigners(keys) == keys \ {"cosigner"}

\* serialized size: a signature per signer, the payer first, and the message
forecastTransactionSize(ins, q, signers) ==
  (1 + Cardinality(signers)) * SignatureBytes
    + MessageBaseBytes + ComputeBudgetSize(q) + SumSizes(ins, q)

checkLegacyTxSize(ins, q, signers) == forecastTransactionSize(ins, q, signers) < PacketDataSize

\* a versioned transaction is serialized with a slot for every required signature
checkV0TxSize(ins, q) == forecastTransactionSize(ins, q, signerStrs(ins, q)) < PacketDataSize

\* splitIns[splitInsIdx]; 0 stands for undefined
splitAt(s) == IF s.splitInsIdx < Len(s.splitIns) THEN s.splitIns[s.splitInsIdx + 1] ELSE 0

\* computeBudgetConfig ? [...computeBudgetData.instructions, ...q] : q
withCompute(s, q) == IF s.computeBudgetConfig THEN ComputeBudgetIns \o q ELSE q

\* the condition under which forEach pushes item onto the queue
fitsQueue(s, item) ==
  LET _itemIns == Append(s.instructionQueue, item)
      _signer == signerStrs(s.ins, _itemIns)
  IN /\ item # splitAt(s)
     /\ Len(s.instructionQueue) < MaxInsPerTx
     /\ IF s.build = "sizeCheckBuild"
        THEN \/ checkLegacyTxSize(s.ins, withCompute(s, _itemIns), _signer)
             \/ checkLegacyTxSize(s.ins, _itemIns, _signer)
        ELSE \/ checkV0TxSize(s.ins, withCompute(s, _itemIns))
             \/ checkV0TxSize(s.ins, _itemIns)

\* the transaction made of the queue: with the compute budget instructions
\* in front when the size check passes with them
newTransactionAlwaysCompute(s, signers) == withCompute(s, s.instructionQueue)

newTransaction(s, signers) ==
  IF s.build = "sizeCheckBuild"
  THEN IF checkLegacyTxSize(s.ins, withCompute(s, s.instructionQueue), signers)
       THEN withCompute(s, s.instructionQueue)
       ELSE s.instructionQueue
  ELSE IF s.computeBudgetConfig /\ checkV0TxSize(s.ins, ComputeBudgetIns \o s.instructionQueue)
       THEN ComputeBudgetIns \o s.instructionQueue
       ELSE s.instructionQueue

\* one iteration of `this.allInstructions.forEach((item) => {...})`
forEachItemNoAdvance(s) ==
  LET item == s.pos
      _signer == signerStrs(s.ins, Append(s.instructionQueue, item))
  IN IF fitsQueue(s, item)
     THEN [s EXCEPT !.instructionQueue = Append(@, item), !.pos = @ + 1]
     ELSE IF Len(s.instructionQueue) = 0
          THEN [s EXCEPT !.pc = "item ins too big"]
          ELSE [s EXCEPT !.allTransactions = Append(@, newTransaction(s, _signer)),
                         !.instructionQueue = <<item>>,
                         !.pos = @ + 1]

forEachItemDropsItem(s) ==
  LET item == s.pos
      _signer == signerStrs(s.ins, Append(s.instructionQueue, item))
  IN IF fitsQueue(s, item)
     THEN [s EXCEPT !.instructionQueue = Append(@, item), !.pos = @ + 1]
     ELSE IF Len(s.instructionQueue) = 0
          THEN [s EXCEPT !.pc = "item ins too big"]
          ELSE [s EXCEPT !.splitInsIdx = @ + (IF item = splitAt(s) THEN 1 ELSE 0),
                         !.allTransactions = Append(@, newTransaction(s, _signer)),
                         !.instructionQueue = <<>>,
                         !.pos = @ + 1]

forEachItem(s) ==
  LET item == s.pos
      _signer == signerStrs(s.ins, Append(s.instructionQueue, item))
  IN IF fitsQueue(s, item)
     THEN [s EXCEPT !.instructionQueue = Append(@, item), !.pos = @ + 1]
     ELSE IF Len(s.instructionQueue) = 0
          THEN [s EXCEPT !.pc = "item ins too big"]
          ELSE [s EXCEPT !.splitInsIdx = @ + (IF item = splitAt(s) THEN 1 ELSE 0),
                         !.allTransactions = Append(@, newTransaction(s, _signer)),
                         !.instructionQueue = <<item>>,
                         !.pos = @ + 1]

\* `if (instructionQueue.length > 0) {...}` after the loop, and the return
flushQueue(s) ==
  LET _signers == heldSigners(signerStrs(s.ins, s.instructionQueue))
  IN IF Len(s.instructionQueue) > 0
     THEN [s EXCEPT !.allTransactions = Append(@, newTransaction(s, _signers)),
                    !.pc = "returned"]
     ELSE [s EXCEPT !.pc = "returned"]

\* strictly increasing sequences of at most m positions of a list of n
IncreasingSeqs(n, m) ==
  {q \in UNION {[1 .. k -> 1 .. n] : k \in 0 .. m} :
     \A a, b \in DOMAIN q : a < b => q[a] < q[b]}

\* allInstructions: every short list, and long lists of small instructions
InsLists ==
  UNION {[1 .. n -> InsKinds] : n \in 1 .. MaxLen}
    \cup {[x \in 1 .. n |-> "small"] : n \in (MaxLen + 1) .. MaxLong}

ExecIdle ==
  /\ build = "sizeCheckBuild"
  /\ mode = "keypair"
  /\ loopMultiTxStatus = FALSE
  /\ nTx = 1
  /\ skipTxCount = 0
  /\ execPc = "start"
  /\ kpIdx = 0
  /\ i = 0
  /\ processedTxs = <<>>
  /\ calls = <<>>
  /\ awaited = 0
  /\ txIds = <<>>
  /\ sendCalls = [k \in TxIdx |-> 0]
  /\ ledger = [k \in TxIdx |-> "none"]
  /\ reported = {}
  /\ terminalSeen = {}
  /\ statusSets = [k \in TxIdx |-> 0]
  /\ nextSends = [k \in TxIdx |-> 0]
  /\ errors = {}

InitSplit ==
  /\ ExecIdle
  /\ \E b \in SplitBuilds, ins \in InsLists, cb \in BOOLEAN :
       \E sp \in IncreasingSeqs(Len(ins), MaxSplits) :
         split = [build |-> b, ins |-> ins, splitIns |-> sp, computeBudgetConfig |-> cb,
                  pos |-> 1, instructionQueue |-> <<>>, splitInsIdx |-> 0,
                  allTransactions |-> <<>>, pc |-> "forEach"]
  /\ entry = Idle
  /\ signing = Idle
  /\ builder = Idle
  /\ budget = Idle
  /\ fee = Idle
  /\ tables = Idle
  /\ reward = Idle
  /\ scan = Idle
  /\ hydrate = Idle
  /\ LatePartsIdle

SplitItem ==
  /\ split.pc = "forEach"
  /\ split.pos <= Len(split.ins)
  /\ split' = forEachItem(split)
  /\ UNCHANGED <<execVars, entry, signing, builder, budget, fee, tables, reward, scan, hydrate, lateParts>>

SplitFinish ==
  /\ split.pc = "forEach"
  /\ split.pos > Len(split.ins)
  /\ split' = flushQueue(split)
  /\ UNCHANGED <<execVars, entry, signing, builder, budget, fee, tables, reward, scan, hydrate, lateParts>>

NextSplit ==
  \/ SplitItem
  \/ SplitFinish

SpecSplit == InitSplit /\ [][NextSplit]_vars

\* the instructions of a transaction without the compute budget instructions
Body(tx) == SelectSeq(tx, LAMBDA x : ~IsComputeBudget(x))

RECURSIVE Concat(_)
Concat(txs) == IF txs = <<>> THEN <<>> ELSE Body(Head(txs)) \o Concat(Tail(txs))

\* the size check of a whole transaction, with the signers the builder holds
\* for it (legacy) or the signatures it requires (versioned)
PassesSizeCheck(s, tx) ==
  IF s.build = "sizeCheckBuild"
  THEN checkLegacyTxSize(s.ins, tx, heldSigners(signerStrs(s.ins, tx)))
  ELSE checkV0TxSize(s.ins, tx)

\* the size check the loop applies to a list of instructions, without the
\* compute budget instructions
LoopSizeCheck(s, q) ==
  IF s.build = "sizeCheckBuild"
  THEN checkLegacyTxSize(s.ins, q, signerStrs(s.ins, q))
  ELSE checkV0TxSize(s.ins, q)

SplitReturned == split.pc = "returned"

\* C12: whenever sizeCheckBuild or sizeCheckBuildV0 returns, the instructions
\* of the produced transactions, concatenated in batch order with the compute
\* budget prefix removed, are allInstructions in order, each exactly once.
C12_SplitPreservesInstructions ==
  SplitReturned => Concat(split.allTransactions) = [x \in 1 .. Len(split.ins) |-> x]

C12_Witness ==
  /\ SplitReturned
  /\ Len(split.allTransactions) >= 3
  /\ \E j \in DOMAIN split.allTransactions : IsComputeBudget(split.allTransactions[j][1])
  /\ \E j \in DOMAIN split.allTransactions : ~IsComputeBudget(split.allTransactions[j][1])

\* C13: every transaction returned by sizeCheckBuild or sizeCheckBuildV0
\* passes the serialized-size check.
C13_EveryTransactionFits ==
  SplitReturned =>
    \A j \in DOMAIN split.allTransactions : PassesSizeCheck(split, split.allTransactions[j])

\* C14: if any single instruction fails the size check by itself, the build
\* fails with 'item ins too big' instead of returning, whatever the position
\* of that instruction.
C14_OversizeInstructionRejected ==
  (\E p \in DOMAIN split.ins : ~LoopSizeCheck(split, <<p>>)) => ~SplitReturned

\* C15: for a splitIns list in the order of allInstructions, whenever the
\* build returns, each split instruction is the first instruction after the
\* compute budget instructions of some transaction.
C15_SplitPointsStartTransactions ==
  SplitReturned =>
    \A k \in DOMAIN split.splitIns :
      \E j \in DOMAIN split.allTransactions :
        Body(split.allTransactions[j])[1] = split.splitIns[k]

C15_Witness ==
  /\ SplitReturned
  /\ Len(split.splitIns) = 2
  /\ split.computeBudgetConfig
  /\ Len(split.allTransactions) = 3
  /\ \A j \in DOMAIN split.allTransactions : IsComputeBudget(split.allTransactions[j][1])

\* the first instruction of the transaction after transaction j
StartsNext(j) == Body(split.allTransactions[j + 1])[1]

\* C16 (as stated): whenever a transaction is closed and a new one started at
\* x, either x is a mandatory split point or the closed transaction's
\* instructions plus x fail the size check.
C16_GreedySplit ==
  SplitReturned =>
    \A j \in 1 .. (Len(split.allTransactions) - 1) :
      \/ StartsNext(j) \in Range(split.splitIns)
      \/ ~LoopSizeCheck(split, Append(Body(split.allTransactions[j]), StartsNext(j)))

\* C16 (amended): whenever a transaction is closed and a new one started at
\* x, either x is a mandatory split point, or the closed transaction already
\* holds 12 instructions, or the closed transaction's instructions plus x
\* fail the size check.
C16_GreedySplitUpToCap ==
  SplitReturned =>
    \A j \in 1 .. (Len(split.allTransactions) - 1) :
      \/ StartsNext(j) \in Range(split.splitIns)
      \/ Len(Body(split.allTransactions[j])) = 12
      \/ ~LoopSizeCheck(split, Append(Body(split.allTransactions[j]), StartsNext(j)))

C16_Witness ==
  /\ SplitReturned
  /\ \E j \in 1 .. (Len(split.allTransactions) - 1) :
       /\ StartsNext(j) \notin Range(split.splitIns)
       /\ Len(Body(split.allTransactions[j])) = 12
       /\ LoopSizeCheck(split, Append(Body(split.allTransactions[j]), StartsNext(j)))

\* C17: each transaction produced with a computeBudgetConfig either starts
\* with the compute budget instructions and passes the size check with them
\* included, or contains no compute budget instruction; compute budget
\* instructions appear nowhere but at the start.
C17_ComputeBudgetOnlyIfFits ==
  SplitReturned =>
    \A j \in DOMAIN split.allTransactions :
      LET tx == split.allTransactions[j]
      IN \/ \A x \in Range(tx) : ~IsComputeBudget(x)
         \/ /\ split.computeBudgetConfig
            /\ tx = ComputeBudgetIns \o Body(tx)
            /\ PassesSizeCheck(split, tx)

C17_Witness ==
  /\ SplitReturned
  /\ split.computeBudgetConfig
  /\ \E j \in DOMAIN split.allTransactions : IsComputeBudget(split.allTransactions[j][1])
  /\ \E j \in DOMAIN split.allTransactions :
       /\ ~IsComputeBudget(split.allTransactions[j][1])
       /\ ~PassesSizeCheck(split, ComputeBudgetIns \o split.allTransactions[j])
       /\ PassesSizeCheck(split, split.allTransactions[j])


\* C37: the build raises 'item ins too big' only when some single instruction
\* fails the size check by itself; a mandatory split point, the first
\* instruction included, or the 12-instruction cap never raises it on its own.
C37_TooBigOnlyForOversizeInstruction ==
  split.pc = "item ins too big" =>
    \E p \in DOMAIN split.ins : ~LoopSizeCheck(split, <<p>>)

\* ===================================================================
\* Part 3: the build entry points up to the choice of signing mode
\*
\* entry.network lists the requests issued to the RPC node so far.
\* ===================================================================
EntryBuilds == {"build", "buildV0", "buildMultiTx", "buildV0MultiTx",
                "sizeCheckBuild", "sizeCheckBuildV0"}
\* this.owner?.isKeyPair, this.signAllTransactions, or neither
EntryModes == {"keypair", "signAll", "none"}

\* builds that are async and assemble versioned transactions
IsV0Build(b) == b \in {"buildV0", "buildV0MultiTx", "sizeCheckBuildV0"}

Opt(cond, call) == IF cond THEN <<call>> ELSE <<>>

\* requests awaited by the build before it returns
buildCalls(e) ==
  IF IsV0Build(e.build)
  THEN Opt(e.devnet, "getDevLookupTableCache")
         \o Opt(e.needCacheLTA, "getMultipleLookupTableInfo")
         \o Opt(e.build = "sizeCheckBuildV0" \/ (~e.forerunCreate /\ ~e.propBlockHash),
                "getRecentBlockHash")
  ELSE <<>>

\* requests awaited by execute before it looks at the owner
executeCalls(e) ==
  Opt(~IsV0Build(e.build) /\ ~e.propBlockHash, "getRecentBlockHash")

InitEntry ==
  /\ ExecIdle
  /\ \E b \in EntryBuilds, m \in EntryModes :
       \E dev \in BOOLEAN, lta \in BOOLEAN, fore \in BOOLEAN, bh \in BOOLEAN :
         LET e == [build |-> b, mode |-> m, devnet |-> dev, needCacheLTA |-> lta,
                   forerunCreate |-> fore, propBlockHash |-> bh]
         IN entry = [build |-> b, mode |-> m, devnet |-> dev, needCacheLTA |-> lta,
                     forerunCreate |-> fore, propBlockHash |-> bh,
                     pc |-> "build", pending |-> buildCalls(e), network |-> <<>>]
  /\ split = Idle
  /\ signing = Idle
  /\ builder = Idle
  /\ budget = Idle
  /\ fee = Idle
  /\ tables = Idle
  /\ reward = Idle
  /\ scan = Idle
  /\ hydrate = Idle
  /\ LatePartsIdle

\* the next awaited request is issued and answered
EntryRequest ==
  /\ entry.pc \in {"build", "execute"}
  /\ entry.pending # <<>>
  /\ entry' = [entry EXCEPT !.network = Append(@, Head(entry.pending)),
                            !.pending = Tail(@)]
  /\ UNCHANGED <<execVars, split, signing, builder, budget, fee, tables, reward, scan, hydrate, lateParts>>

\* the build returns its data and the caller calls execute
EntryExecute ==
  /\ entry.pc = "build"
  /\ entry.pending = <<>>
  /\ entry' = [entry EXCEPT !.pc = "execute", !.pending = executeCalls(entry)]
  /\ UNCHANGED <<execVars, split, signing, builder, budget, fee, tables, reward, scan, hydrate, lateParts>>

\* `if (this.owner?.isKeyPair) ... if (this.signAllTransactions) ... throw`
EntryBranch ==
  /\ entry.pc = "execute"
  /\ entry.pending = <<>>
  /\ entry' = IF entry.mode = "none"
              THEN [entry EXCEPT !.pc = "please provide owner in keypair format or signAllTransactions function"]
              ELSE [entry EXCEPT !.pc = "sending", !.network = Append(@, "send")]
  /\ UNCHANGED <<execVars, split, signing, builder, budget, fee, tables, reward, scan, hydrate, lateParts>>

NextEntry ==
  \/ EntryRequest
  \/ EntryExecute
  \/ EntryBranch

SpecEntry == InitEntry /\ [][NextEntry]_vars

\* C11: with neither a keypair owner nor signAllTransactions, no entry point
\* has issued a network call (blockhash fetch, lookup-table fetch or send) at
\* any point up to its configuration error.
C11_ConfigErrorBeforeNetwork ==
  entry.mode = "none" => entry.network = <<>>

\* ===================================================================
\* Part 4: who signs the transactions of a batch before they are sent
\*
\* signing.own[k] are the keypairs transaction k needs besides the owner
\* (its entry of the signers list), signing.refs[k] the keypairs whose
\* accounts it only references.  signing.sigs[k] are the signatures the
\* transaction carries; signing.broadcasts the <<k, signatures, blockhash,
\* signed blockhash>> tuples that reached the RPC node.  signing.hash[k] is
\* the recent blockhash of the transaction ("built": set when the versioned
\* message was compiled, "recent": fetched by execute, "prop": the caller's
\* recentBlockHash), signing.signedOver[k] the blockhash the keypair
\* signatures of the builder were produced over.
\* ===================================================================
MaxBatch == 2       \* transactions in the batch

Keys == {"s1", "s2"}
IsLegacyBuild(b) == b \in {"buildMultiTx", "sizeCheckBuild"}

\* the key that pays: the owner keypair, or the wallet behind signAllTransactions
payerKey(s) == IF s.mode = "keypair" THEN "owner" ELSE "wallet"

\* allSigners[idx]: the owner's signer is added when the owner has one
allSigners(s, k) == s.own[k] \cup (IF s.mode = "keypair" THEN {"owner"} ELSE {})

\* this.signers, with the owner's signer as build() and lines 949-953 add it
thisSigners(s) ==
  IF s.build \in {"buildMultiTx", "buildV0MultiTx"}
  THEN allSigners(s, 1)
  ELSE UNION {allSigners(s, k) : k \in DOMAIN s.own}

\* web3.js Transaction.sign(...signers): the signatures are replaced; a signer
\* whose key the transaction does not mention is an "unknown signer"
canSign(s, k, signers) == signers \subseteq (s.own[k] \cup s.refs[k] \cup {payerKey(s)})

\* web3.js Transaction.serialize(): every required signature must be there
canSerialize(s, k, sigs) == (s.own[k] \cup {payerKey(s)}) \subseteq sigs

\* build: the versioned builds sign every transaction with allSigners[idx]
signInBuild(s) ==
  IF IsLegacyBuild(s.build)
  THEN s
  ELSE [s EXCEPT !.sigs = [k \in DOMAIN s.own |-> allSigners(s, k)],
                 !.signedOver = [k \in DOMAIN s.own |->
                                   IF allSigners(s, k) # {} THEN s.hash[k] ELSE "none"],
                 !.pc = "built"]

\* propBlockHash ?? (await getRecentBlockHash(...))
recentBlockHash(s) == IF s.propBlockHash THEN "prop" ELSE "recent"

\* `tx.recentBlockhash = recentBlockHash; if (allSigners[idx].length) tx.sign(...allSigners[idx])`
signLegacy(s) ==
  [s EXCEPT !.hash = [k \in DOMAIN s.own |-> recentBlockHash(s)],
            !.sigs = [k \in DOMAIN s.own |->
                        IF allSigners(s, k) # {} THEN allSigners(s, k) ELSE s.sigs[k]],
            !.signedOver = [k \in DOMAIN s.own |->
                              IF allSigners(s, k) # {} THEN recentBlockHash(s) ELSE s.signedOver[k]]]

\* `if (propBlockHash) tx.message.recentBlockhash = propBlockHash`
writePropBlockHash(s) ==
  IF s.propBlockHash THEN [s EXCEPT !.hash = [k \in DOMAIN s.own |-> "prop"]] ELSE s

\* `if (allSigners[idx].length) tx.sign(allSigners[idx])` of sizeCheckBuildV0.execute
signV0Again(s) ==
  [s EXCEPT !.sigs = [k \in DOMAIN s.own |->
                        IF allSigners(s, k) # {} THEN allSigners(s, k) ELSE s.sigs[k]],
            !.signedOver = [k \in DOMAIN s.own |->
                              IF allSigners(s, k) # {} THEN s.hash[k] ELSE s.signedOver[k]]]

\* execute up to the choice of the signing mode
signInExecute(s) ==
  IF s.build = "buildMultiTx"
  THEN IF s.mode = "keypair"
       THEN [s EXCEPT !.hash = [k \in DOMAIN s.own |-> recentBlockHash(s)]]
       ELSE signLegacy(s)
  ELSE IF s.build = "buildV0MultiTx" THEN writePropBlockHash(s)
  ELSE IF s.build = "sizeCheckBuild" THEN signLegacy(s)
  ELSE writePropBlockHash(signV0Again(s))

\* the transaction is handed to the connection: what is signed just before,
\* whether it can be sent, and the signatures it carries then
signersAtSend(s, k) ==
  IF IsLegacyBuild(s.build) /\ s.mode = "keypair" /\ s.sequentially
  THEN thisSigners(s) \cup {"owner"}
  ELSE s.sigs[k]

sendOk(s, k) ==
  IF IsLegacyBuild(s.build)
  THEN /\ (s.mode = "keypair" /\ s.sequentially) => canSign(s, k, signersAtSend(s, k))
       /\ canSerialize(s, k, signersAtSend(s, k))
  ELSE TRUE

\* the blockhash the keypair signatures carried at the send were produced
\* over: sendAndConfirmTransaction signs over the blockhash it sends
signedOverAtSend(s, k) ==
  IF IsLegacyBuild(s.build) /\ s.mode = "keypair" /\ s.sequentially
  THEN s.hash[k]
  ELSE s.signedOver[k]

sendOne(s) ==
  LET k == s.idx
      last == k = Len(s.own)
  IN IF sendOk(s, k)
     THEN [s EXCEPT !.sigs[k] = signersAtSend(s, k),
                    !.signedOver[k] = signedOverAtSend(s, k),
                    !.broadcasts = @ \cup {<<k, signersAtSend(s, k), s.hash[k], signedOverAtSend(s, k)>>},
                    !.idx = k + 1,
                    !.pc = IF last THEN "done" ELSE "send"]
     ELSE [s EXCEPT !.errors = @ \cup {k},
                    !.idx = k + 1,
                    !.pc = IF s.sequentially \/ last THEN "done" ELSE "send"]

\* per transaction: each key is needed, referenced or absent
KeyUses == {u \in [own : SUBSET Keys, refs : SUBSET Keys] : u.own \cap u.refs = {}}

InitSigning ==
  /\ ExecIdle
  /\ \E b \in Builds, m \in Modes, sq \in BOOLEAN, prop \in BOOLEAN, n \in 1 .. MaxBatch :
       \E uses \in [1 .. n -> KeyUses] :
         signing = [build |-> b, mode |-> m, sequentially |-> sq, propBlockHash |-> prop,
                    hash |-> [k \in 1 .. n |-> IF IsLegacyBuild(b) THEN "none" ELSE "built"],
                    signedOver |-> [k \in 1 .. n |-> "none"],
                    own |-> [k \in 1 .. n |-> uses[k].own],
                    refs |-> [k \in 1 .. n |-> uses[k].refs],
                    sigs |-> [k \in 1 .. n |-> {}],
                    broadcasts |-> {}, errors |-> {}, idx |-> 1, pc |-> "build"]
  /\ split = Idle
  /\ entry = Idle
  /\ builder = Idle
  /\ budget = Idle
  /\ fee = Idle
  /\ tables = Idle
  /\ reward = Idle
  /\ scan = Idle
  /\ hydrate = Idle
  /\ LatePartsIdle

SignBuild ==
  /\ signing.pc = "build"
  /\ signing' = [signInBuild(signing) EXCEPT !.pc = "built"]
  /\ UNCHANGED <<execVars, split, entry, builder, budget, fee, tables, reward, scan, hydrate, lateParts>>

SignExecute ==
  /\ signing.pc = "built"
  /\ signing' = [signInExecute(signing) EXCEPT
                    !.pc = IF signing.mode = "keypair" THEN "send" ELSE "signAllTransactions"]
  /\ UNCHANGED <<execVars, split, entry, builder, budget, fee, tables, reward, scan, hydrate, lateParts>>

\* await this.signAllTransactions(...): the wallet adds its signature
SignWallet ==
  /\ signing.pc = "signAllTransactions"
  /\ signing' = [signing EXCEPT !.sigs = [k \in DOMAIN signing.own |-> signing.sigs[k] \cup {"wallet"}],
                                !.pc = "send"]
  /\ UNCHANGED <<execVars, split, entry, builder, budget, fee, tables, reward, scan, hydrate, lateParts>>

SignSend ==
  /\ signing.pc = "send"
  /\ signing' = sendOne(signing)
  /\ UNCHANGED <<execVars, split, entry, builder, budget, fee, tables, reward, scan, hydrate, lateParts>>

NextSigning ==
  \/ SignBuild
  \/ SignExecute
  \/ SignWallet
  \/ SignSend

SpecSigning == InitSigning /\ [][NextSigning]_vars

\* C18: in every execute path of a batch, a transaction that is broadcast was
\* signed with its own entry of the signers list (besides the wallet's
\* signature), never unsigned and never with another transaction's signers.
C18_SignedWithOwnSigners ==
  \A b \in signing.broadcasts :
    b[2] \ {"wallet"} = allSigners(signing, b[1])

\* C39: whenever a versioned transaction is broadcast by the execute of
\* buildV0MultiTx or sizeCheckBuildV0, its recent blockhash is the one its
\* builder-side signatures were produced over: a caller-supplied
\* recentBlockHash is never written into a signed transaction without the
\* same signers signing it again.
C39_BlockhashMatchesSignatures ==
  \A b \in signing.broadcasts :
    (~IsLegacyBuild(signing.build) /\ b[4] # "none") => b[3] = b[4]

\* ===================================================================
\* Part 5: addInstruction
\*
\* builder.calls is the list of the parameters of the calls made so far.
\* ===================================================================
MaxCalls == 3       \* addInstruction calls on one builder

\* PublicKey.default.toString()
DefaultAddress == "11111111111111111111111111111111"

NoParams ==
  [instructions |-> <<>>, endInstructions |-> <<>>, signers |-> <<>>,
   instructionTypes |-> <<>>, endInstructionTypes |-> <<>>, lookupTableAddress |-> <<>>]

\* parameters of a call; a list left out defaults to []
AddInstructionParams ==
  { NoParams,
    [NoParams EXCEPT !.instructions = <<"a", "b">>, !.signers = <<"k1">>,
                     !.instructionTypes = <<"t1", "t2">>],
    [NoParams EXCEPT !.instructions = <<"b", "a">>, !.endInstructions = <<"e1">>,
                     !.endInstructionTypes = <<"te">>,
                     !.lookupTableAddress = <<"LTA1", DefaultAddress, "LTA1">>],
    [NoParams EXCEPT !.instructions = <<"a">>, !.signers = <<"k1", "k1">>,
                     !.lookupTableAddress = <<DefaultAddress>>],
    [NoParams EXCEPT !.endInstructions = <<"e1", "e1">>, !.instructionTypes = <<"t1">>,
                     !.lookupTableAddress = <<"LTA2", "LTA1">>] }

addInstructionUnshift(b, p) ==
  [b EXCEPT !.instructions = p.instructions \o @,
            !.endInstructions = @ \o p.endInstructions,
            !.signers = @ \o p.signers,
            !.instructionTypes = @ \o p.instructionTypes,
            !.endInstructionTypes = @ \o p.endInstructionTypes,
            !.lookupTableAddress =
               @ \o SelectSeq(p.lookupTableAddress, LAMBDA address : address # DefaultAddress)]

addInstruction(b, p) ==
  [b EXCEPT !.instructions = @ \o p.instructions,
            !.endInstructions = @ \o p.endInstructions,
            !.signers = @ \o p.signers,
            !.instructionTypes = @ \o p.instructionTypes,
            !.endInstructionTypes = @ \o p.endInstructionTypes,
            !.lookupTableAddress =
               @ \o SelectSeq(p.lookupTableAddress, LAMBDA address : address # DefaultAddress)]

\* get allInstructions
allInstructions(b) == b.instructions \o b.endInstructions

InitBuilder ==
  /\ ExecIdle
  /\ builder = NoParams @@ [calls |-> <<>>]
  /\ split = Idle
  /\ entry = Idle
  /\ signing = Idle
  /\ budget = Idle
  /\ fee = Idle
  /\ tables = Idle
  /\ reward = Idle
  /\ scan = Idle
  /\ hydrate = Idle
  /\ LatePartsIdle

AddInstruction ==
  /\ Len(builder.calls) < MaxCalls
  /\ \E p \in AddInstructionParams :
       builder' = [addInstruction(builder, p) EXCEPT !.calls = Append(@, p)]
  /\ UNCHANGED <<execVars, split, entry, signing, budget, fee, tables, reward, scan, hydrate, lateParts>>

NextBuilder == AddInstruction

SpecBuilder == InitBuilder /\ [][NextBuilder]_vars

\* the lists supplied by the calls, one after the other
RECURSIVE Supplied(_, _)
Supplied(params, field) ==
  IF params = <<>> THEN <<>> ELSE Head(params)[field] \o Supplied(Tail(params), field)

RECURSIVE WithoutDefault(_)
WithoutDefault(addresses) ==
  IF addresses = <<>> THEN <<>>
  ELSE IF Head(addresses) = DefaultAddress
       THEN WithoutDefault(Tail(addresses))
       ELSE <<Head(addresses)>> \o WithoutDefault(Tail(addresses))

\* C19: after any sequence of addInstruction calls the instructions,
\* endInstructions, signers and the two type-tag lists are the concatenation,
\* in call order, of the lists supplied, and lookupTableAddress is the
\* concatenation of the supplied addresses without the PublicKey.default ones.
C19_ListsAreConcatenations ==
  /\ \A field \in {"instructions", "endInstructions", "signers",
                   "instructionTypes", "endInstructionTypes"} :
       builder[field] = Supplied(builder.calls, field)
  /\ builder.lookupTableAddress = WithoutDefault(Supplied(builder.calls, "lookupTableAddress"))
  /\ allInstructions(builder) =
       Supplied(builder.calls, "instructions") \o Supplied(builder.calls, "endInstructions")

C19_Witness ==
  /\ Len(builder.calls) = MaxCalls
  /\ \E x, y \in DOMAIN builder.instructions :
       x < y /\ builder.instructions[x] = builder.instructions[y]
  /\ \E x \in DOMAIN builder.calls :
       DefaultAddress \in Range(builder.calls[x].lookupTableAddress)
  /\ builder.lookupTableAddress # <<>>
  /\ builder.endInstructions # <<>>

\* ===================================================================
\* Part 6: calComputeBudget
\* ===================================================================
MaxIns == 2         \* instructions already in the builder

\* what the request of getComputeBudgetConfig does
OracleOutcomes == {"rejects", "noAvg", "avg"}

\* addComputeBudget(config).instructions, by the origin of config
computeBudgetOf(origin) == IF origin = "propConfig" THEN <<"cbConfig">> ELSE <<"cbOracle">>

\* addCustomComputeBudget(config); origin "undefined" is a missing config
addCustomComputeBudget(c, origin) ==
  IF origin # "undefined"
  THEN [c EXCEPT !.instructions = computeBudgetOf(origin) \o @, !.added = TRUE]
  ELSE [c EXCEPT !.added = FALSE]

\* defaultIns && this.instructions.unshift(...defaultIns)
unshiftDefault(c) == [c EXCEPT !.instructions = c.defaultIns \o @]

\* calComputeBudget up to the await of the oracle, or to its end
calStart(c) ==
  IF c.propConfig
  THEN [addCustomComputeBudget(c, "propConfig") EXCEPT !.pc = "resolved"]
  ELSE [c EXCEPT !.oracleQueries = @ + 1, !.pc = "getComputeBudgetConfig"]

\* the rest of calComputeBudget once the oracle request has settled
calResumeNoCatch(c) ==
  IF c.oracle = "rejects"
  THEN [c EXCEPT !.pc = "rejected"]
  ELSE LET d == addCustomComputeBudget(c, IF c.oracle = "avg" THEN "oracle" ELSE "undefined")
       IN IF d.added THEN [d EXCEPT !.pc = "resolved"]
          ELSE [unshiftDefault(d) EXCEPT !.pc = "resolved"]

calResume(c) ==
  IF c.oracle = "rejects"
  THEN [unshiftDefault(c) EXCEPT !.pc = "resolved"]
  ELSE LET d == addCustomComputeBudget(c, IF c.oracle = "avg" THEN "oracle" ELSE "undefined")
       IN IF d.added THEN [d EXCEPT !.pc = "resolved"]
          ELSE [unshiftDefault(d) EXCEPT !.pc = "resolved"]

SeqsUpTo(S, n) == UNION {[1 .. k -> S] : k \in 0 .. n}

InitBudget ==
  /\ ExecIdle
  /\ \E cfg \in BOOLEAN, o \in OracleOutcomes :
       \E ins \in SeqsUpTo({"i1", "i2"}, MaxIns), def \in {<<>>, <<"d1">>, <<"d1", "d2">>} :
         budget = [propConfig |-> cfg, oracle |-> o, defaultIns |-> def, before |-> ins,
                   instructions |-> ins, added |-> FALSE, oracleQueries |-> 0, pc |-> "call"]
  /\ split = Idle
  /\ entry = Idle
  /\ signing = Idle
  /\ builder = Idle
  /\ fee = Idle
  /\ tables = Idle
  /\ reward = Idle
  /\ scan = Idle
  /\ hydrate = Idle
  /\ LatePartsIdle

CalComputeBudget ==
  /\ budget.pc = "call"
  /\ budget' = calStart(budget)
  /\ UNCHANGED <<execVars, split, entry, signing, builder, fee, tables, reward, scan, hydrate, lateParts>>

OracleSettles ==
  /\ budget.pc = "getComputeBudgetConfig"
  /\ budget' = calResume(budget)
  /\ UNCHANGED <<execVars, split, entry, signing, builder, fee, tables, reward, scan, hydrate, lateParts>>

NextBudget ==
  \/ CalComputeBudget
  \/ OracleSettles

SpecBudget == InitBudget /\ [][NextBudget]_vars

\* C20: calComputeBudget never rejects; without a config, when the oracle
\* request fails or yields no average fee, defaultIns are prepended exactly
\* once and no oracle-derived instruction is added; with a config the oracle
\* is not queried and defaultIns are not added.
C20_ComputeBudgetFallback ==
  /\ budget.pc # "rejected"
  /\ (budget.pc = "resolved" /\ ~budget.propConfig /\ budget.oracle \in {"rejects", "noAvg"})
       => budget.instructions = budget.defaultIns \o budget.before
  /\ (budget.pc = "resolved" /\ budget.propConfig)
       => /\ budget.oracleQueries = 0
          /\ budget.instructions = <<"cbConfig">> \o budget.before

C20_Witness ==
  /\ budget.pc = "resolved"
  /\ ~budget.propConfig
  /\ budget.oracle = "rejects"
  /\ budget.oracleQueries = 1
  /\ Len(budget.defaultIns) = 2
  /\ budget.before # <<>>

\* the parts of the transaction builder other than Parts 7 and 8
txParts == <<split, entry, signing, builder, budget>>

TxPartsIdle ==
  /\ split = Idle
  /\ entry = Idle
  /\ signing = Idle
  /\ builder = Idle
  /\ budget = Idle

\* ===================================================================
\* Part 7: getComputeBudgetConfig
\*
\* fee.present and fee.avg are the answer of the fee oracle (json[15].avg);
\* the average is a whole number of lamports.
\* ===================================================================
MaxAvg == 40        \* averages drawn around 0 and around the ceiling

\* `units: 600000`
ComputeUnits == 600000
\* `Math.min(..., 25000)`
MaxMicroLamports == 25000
\* the average at which avg * 1000000 / 600000 reaches 25000
CeilingAvg == 15000

AvgValues ==
  (0 .. MaxAvg) \cup {CeilingAvg + d : d \in 0 .. MaxAvg} \cup {CeilingAvg - d : d \in 0 .. MaxAvg}

Min(a, b) == IF a <= b THEN a ELSE b

\* Math.ceil(a / b) for a >= 0, b > 0
Ceil(a, b) == (a + b - 1) \div b

\* 1000000 / 600000 reduced to 5 / 3: the products stay below 2^31
FeeNum == 1000000 \div 200000
FeeDen == ComputeUnits \div 200000

Undefined == [defined |-> FALSE, units |-> 0, microLamports |-> 0]

getComputeBudgetConfigNoCeiling(present, avg) ==
  IF ~present \/ avg = 0
  THEN Undefined
  ELSE [defined |-> TRUE, units |-> ComputeUnits,
        microLamports |-> Ceil(avg * FeeNum, FeeDen)]

getComputeBudgetConfig(present, avg) ==
  IF ~present \/ avg = 0
  THEN Undefined
  ELSE [defined |-> TRUE, units |-> ComputeUnits,
        microLamports |-> Min(Ceil(avg * FeeNum, FeeDen), MaxMicroLamports)]

InitFee ==
  /\ ExecIdle
  /\ TxPartsIdle
  /\ \E present \in BOOLEAN, avg \in AvgValues :
       /\ (~present => avg = 0)
       /\ fee = [present |-> present, avg |-> avg, pc |-> "axios.get", config |-> Undefined]
  /\ tables = Idle
  /\ reward = Idle
  /\ scan = Idle
  /\ hydrate = Idle
  /\ LatePartsIdle

\* the oracle answers and getComputeBudgetConfig returns
FeeReturn ==
  /\ fee.pc = "axios.get"
  /\ fee' = [fee EXCEPT !.pc = "returned", !.config = getComputeBudgetConfig(fee.present, fee.avg)]
  /\ UNCHANGED <<execVars, txParts, tables, reward, scan, hydrate, lateParts>>

NextFee == FeeReturn

SpecFee == InitFee /\ [][NextFee]_vars

\* C21: for a positive average fee avg getComputeBudgetConfig returns units =
\* 600000 and microLamports = min(ceil(avg * 1000000 / 600000), 25000), so the
\* fee per compute unit never exceeds 25000; it returns undefined when the
\* average is missing or zero.
C21_FeeConversion ==
  fee.pc = "returned" =>
    IF fee.present /\ fee.avg > 0
    THEN /\ fee.config.defined
         /\ fee.config.units = 600000
         /\ fee.config.microLamports <= 25000
         /\ \/ /\ fee.config.microLamports = 25000
               /\ fee.avg * 5 > (25000 - 1) * 3
            \/ /\ (fee.config.microLamports - 1) * 3 < fee.avg * 5
               /\ fee.avg * 5 <= fee.config.microLamports * 3
    ELSE ~fee.config.defined

C21_Witness ==
  /\ fee.pc = "returned"
  /\ fee.present
  /\ fee.avg > CeilingAvg
  /\ fee.config.microLamports = 25000

\* ===================================================================
\* Part 8: the lookup tables of buildV0 and sizeCheckBuildV0
\*
\* A cache maps an address to the table it holds; a table is named by where
\* it came from ("default", "caller", "ledger"), "none" being no entry.
\* tables.requests lists the address lists passed to
\* getMultipleLookupTableInfo.
\* ===================================================================
MaxAddrs == 2       \* longest list of lookup-table addresses

Addresses == {"A", "B", "C"}
\* the tables that exist on the ledger
LedgerTables == {"A", "B"}
V0Builds == {"buildV0", "sizeCheckBuildV0"}

\* Array.from(new Set(list)): the first occurrence of each element, in order
RECURSIVE Dedup(_)
Dedup(list) ==
  IF list = <<>> THEN <<>>
  ELSE LET front == Dedup(SubSeq(list, 1, Len(list) - 1))
           last == list[Len(list)]
       IN IF last \in Range(front) THEN front ELSE Append(front, last)

\* { ...defaultCache, ...lookupTableCache }
mergeCacheDefaultWins(defaultCache, lookupTableCache) ==
  [a \in Addresses |->
     IF a \in defaultCache THEN "default"
     ELSE IF a \in lookupTableCache THEN "caller" ELSE "none"]

mergeCache(defaultCache, lookupTableCache) ==
  [a \in Addresses |->
     IF a \in lookupTableCache THEN "caller"
     ELSE IF a \in defaultCache THEN "default" ELSE "none"]

\* allLTA: buildV0 puts the caller's addresses first, sizeCheckBuildV0 the builder's
allLTA(t) ==
  IF t.build = "buildV0"
  THEN Dedup(t.lookupTableAddress \o t.builderAddress)
  ELSE Dedup(t.builderAddress \o t.lookupTableAddress)

\* the addresses with no entry in the merged cache
needCacheLTA(t, account) == SelectSeq(allLTA(t), LAMBDA item : account[item] = "none")

\* the build up to `await getMultipleLookupTableInfo(...)`
resolveTables(t) ==
  LET account == mergeCache(t.defaultCache, t.lookupTableCache)
  IN [t EXCEPT !.lookupTableAddressAccount = account,
               !.requests = Append(@, needCacheLTA(t, account)),
               !.pc = "getMultipleLookupTableInfo"]

\* the answer is merged into the cache
mergeFetched(t) ==
  LET asked == Range(t.requests[Len(t.requests)])
  IN [t EXCEPT !.lookupTableAddressAccount =
                  [a \in Addresses |-> IF a \in asked \cap LedgerTables THEN "ledger" ELSE @[a]],
               !.pc = "compile"]

AddressLists == UNION {[1 .. n -> Addresses] : n \in 0 .. MaxAddrs}

InitTables ==
  /\ ExecIdle
  /\ TxPartsIdle
  /\ fee = Idle
  /\ \E b \in V0Builds, dc \in SUBSET Addresses, cc \in SUBSET Addresses :
       \E own \in AddressLists, given \in AddressLists :
         tables = [build |-> b, defaultCache |-> dc, lookupTableCache |-> cc,
                   builderAddress |-> own, lookupTableAddress |-> given,
                   lookupTableAddressAccount |-> [a \in Addresses |-> "none"],
                   requests |-> <<>>, pc |-> "call"]
  /\ reward = Idle
  /\ scan = Idle
  /\ hydrate = Idle
  /\ LatePartsIdle

TablesResolve ==
  /\ tables.pc = "call"
  /\ tables' = resolveTables(tables)
  /\ UNCHANGED <<execVars, txParts, fee, reward, scan, hydrate, lateParts>>

TablesFetched ==
  /\ tables.pc = "getMultipleLookupTableInfo"
  /\ tables' = mergeFetched(tables)
  /\ UNCHANGED <<execVars, txParts, fee, reward, scan, hydrate, lateParts>>

NextTables ==
  \/ TablesResolve
  \/ TablesFetched

SpecTables == InitTables /\ [][NextTables]_vars

MaxTime == 4        \* latest openTime / lastUpdateTime / endTime
FracBits == 2       \* fraction bits of an X64 number

Q64 == 2 ^ FracBits
\* emissionsPerSecondX64 and pool liquidity drawn
Emissions == {0, 3, 6}
Liquidities == {0, 1, 4}
Growths == {0, 7}

\* MathUtil.mulDivFloor(a, b, denominator)
mulDivFloor(a, b, denominator) == (a * b) \div denominator

NotApplied == [status |-> "none", rewardGrowthGlobalX64 |-> 0, rewardTotalEmissioned |-> 0,
               lastUpdateTime |-> 0]

passThrough(s, status) ==
  [status |-> status, rewardGrowthGlobalX64 |-> s.rewardGrowthGlobalX64,
   rewardTotalEmissioned |-> s.rewardTotalEmissioned, lastUpdateTime |-> s.lastUpdateTime]

\* the loop body for one stream: what the result holds for it
updateRewardNoClamp(s, chainTime) ==
  IF ~s.programKnown THEN passThrough(s, "get new reward mint info error")
  ELSE IF s.mintIsDefault THEN passThrough(s, "left out")
  ELSE IF chainTime <= s.openTime \/ s.poolLiquidity = 0 THEN passThrough(s, "stream")
  ELSE LET latestUpdateTime == chainTime
           timeDelta == latestUpdateTime - s.lastUpdateTime
       IN [status |-> "stream",
           rewardGrowthGlobalX64 |->
             s.rewardGrowthGlobalX64 + mulDivFloor(timeDelta, s.emissionsPerSecondX64, s.poolLiquidity),
           rewardTotalEmissioned |->
             s.rewardTotalEmissioned + mulDivFloor(timeDelta, s.emissionsPerSecondX64, Q64),
           lastUpdateTime |-> latestUpdateTime]

updateRewardKeepsTime(s, chainTime) ==
  IF ~s.programKnown THEN passThrough(s, "get new reward mint info error")
  ELSE IF s.mintIsDefault THEN passThrough(s, "left out")
  ELSE IF chainTime <= s.openTime \/ s.poolLiquidity = 0 THEN passThrough(s, "stream")
  ELSE LET latestUpdateTime == Min(s.endTime, chainTime)
           timeDelta == latestUpdateTime - s.lastUpdateTime
       IN [status |-> "stream",
           rewardGrowthGlobalX64 |->
             s.rewardGrowthGlobalX64 + mulDivFloor(timeDelta, s.emissionsPerSecondX64, s.poolLiquidity),
           rewardTotalEmissioned |->
             s.rewardTotalEmissioned + mulDivFloor(timeDelta, s.emissionsPerSecondX64, Q64),
           lastUpdateTime |-> s.lastUpdateTime]

updateRewardStrictOpen(s, chainTime) ==
  IF ~s.programKnown THEN passThrough(s, "get new reward mint info error")
  ELSE IF s.mintIsDefault THEN passThrough(s, "left out")
  ELSE IF chainTime < s.openTime \/ s.poolLiquidity = 0 THEN passThrough(s, "stream")
  ELSE LET latestUpdateTime == Min(s.endTime, chainTime)
           timeDelta == latestUpdateTime - s.lastUpdateTime
       IN [status |-> "stream",
           rewardGrowthGlobalX64 |->
             s.rewardGrowthGlobalX64 + mulDivFloor(timeDelta, s.emissionsPerSecondX64, s.poolLiquidity),
           rewardTotalEmissioned |->
             s.rewardTotalEmissioned + mulDivFloor(timeDelta, s.emissionsPerSecondX64, Q64),
           lastUpdateTime |-> latestUpdateTime]

updateReward(s, chainTime) ==
  IF ~s.programKnown THEN passThrough(s, "get new reward mint info error")
  ELSE IF s.mintIsDefault THEN passThrough(s, "left out")
  ELSE IF chainTime <= s.openTime \/ s.poolLiquidity = 0 THEN passThrough(s, "stream")
  ELSE LET latestUpdateTime == Min(s.endTime, chainTime)
           timeDelta == latestUpdateTime - s.lastUpdateTime
       IN [status |-> "stream",
           rewardGrowthGlobalX64 |->
             s.rewardGrowthGlobalX64 + mulDivFloor(timeDelta, s.emissionsPerSecondX64, s.poolLiquidity),
           rewardTotalEmissioned |->
             s.rewardTotalEmissioned + mulDivFloor(timeDelta, s.emissionsPerSecondX64, Q64),
           lastUpdateTime |-> latestUpdateTime]

Times == 0 .. MaxTime
ChainTimes == 0 .. (MaxTime + 1)

\* a stream as the pool program leaves it: openTime <= lastUpdateTime <= endTime
InitReward ==
  /\ ExecIdle
  /\ TxPartsIdle
  /\ fee = Idle
  /\ tables = Idle
  /\ \E open \in Times, last \in Times, end \in Times, t1 \in ChainTimes, t2 \in ChainTimes :
       \E e \in Emissions, l \in Liquidities, g \in Growths, dflt \in BOOLEAN, known \in BOOLEAN :
         /\ open <= last
         /\ last <= end
         /\ t1 < t2
         /\ reward = [openTime |-> open, lastUpdateTime |-> last, endTime |-> end,
                      emissionsPerSecondX64 |-> e, poolLiquidity |-> l,
                      rewardGrowthGlobalX64 |-> g, rewardTotalEmissioned |-> g,
                      mintIsDefault |-> dflt, programKnown |-> known,
                      chainTime |-> <<t1, t2>>, out |-> <<NotApplied, NotApplied>>,
                      again |-> <<NotApplied, NotApplied>>]
  /\ scan = Idle
  /\ hydrate = Idle
  /\ LatePartsIdle

\* updatePoolRewardInfos({chainTime: reward.chainTime[k], ...}) is called and settles
UpdatePoolRewardInfos(k) ==
  /\ reward.out[k].status = "none"
  /\ reward' = [reward EXCEPT !.out[k] = updateReward(reward, reward.chainTime[k])]
  /\ UNCHANGED <<execVars, txParts, fee, tables, scan, hydrate, lateParts>>

\* the stream of the result for chain time k is passed in again, with the same
\* chainTime and poolLiquidity
UpdateAgain(k) ==
  /\ reward.out[k].status = "stream"
  /\ reward.again[k].status = "none"
  /\ LET fedBack == [reward EXCEPT !.rewardGrowthGlobalX64 = reward.out[k].rewardGrowthGlobalX64,
                                   !.rewardTotalEmissioned = reward.out[k].rewardTotalEmissioned,
                                   !.lastUpdateTime = reward.out[k].lastUpdateTime]
     IN reward' = [reward EXCEPT !.again[k] = updateReward(fedBack, reward.chainTime[k])]
  /\ UNCHANGED <<execVars, txParts, fee, tables, scan, hydrate, lateParts>>

NextReward == \E k \in 1 .. 2 : UpdatePoolRewardInfos(k) \/ UpdateAgain(k)

SpecReward == InitReward /\ [][NextReward]_vars

\* the result holds the stream
Returned(k) == reward.out[k].status = "stream"

\* C23: for every input, a chain time earlier than lastUpdateTime included,
\* updatePoolRewardInfos never decreases the stream's rewardGrowthGlobalX64,
\* rewardTotalEmissioned or lastUpdateTime.
C23_RewardNeverMovesBack ==
  \A k \in 1 .. 2 :
    Returned(k) =>
      /\ reward.out[k].rewardGrowthGlobalX64 >= reward.rewardGrowthGlobalX64
      /\ reward.out[k].rewardTotalEmissioned >= reward.rewardTotalEmissioned
      /\ reward.out[k].lastUpdateTime >= reward.lastUpdateTime

\* the end of the window the growth is advanced over
WindowEnd(k) == IF reward.endTime <= reward.chainTime[k] THEN reward.endTime ELSE reward.chainTime[k]

\* C24: when chainTime is after the stream's openTime and the liquidity is
\* positive, the returned stream has lastUpdateTime = min(endTime, chainTime)
\* and its growth is increased by
\* floor((min(endTime, chainTime) - lastUpdateTime) * emissionsPerSecondX64 / liquidity):
\* with chainTime past endTime the window ends at endTime.
C24_GrowthOverClampedWindow ==
  \A k \in 1 .. 2 :
    (Returned(k) /\ reward.chainTime[k] > reward.openTime /\ reward.poolLiquidity > 0) =>
      LET delta == reward.out[k].rewardGrowthGlobalX64 - reward.rewardGrowthGlobalX64
          product == (WindowEnd(k) - reward.lastUpdateTime) * reward.emissionsPerSecondX64
      IN /\ reward.out[k].lastUpdateTime = WindowEnd(k)
         /\ delta * reward.poolLiquidity <= product
         /\ product < (delta + 1) * reward.poolLiquidity

C24_Witness ==
  /\ Returned(2)
  /\ reward.chainTime[2] > reward.endTime + 1
  /\ reward.endTime > reward.lastUpdateTime + 1
  /\ reward.poolLiquidity = 4
  /\ reward.emissionsPerSecondX64 = 6
  /\ reward.out[2].rewardGrowthGlobalX64 =
       reward.rewardGrowthGlobalX64 + ((reward.endTime - reward.lastUpdateTime) * 6) \div 4

\* C25: for a stream whose chainTime is not after its openTime, or when the
\* pool liquidity is zero, the returned stream has rewardGrowthGlobalX64,
\* rewardTotalEmissioned and lastUpdateTime as in the input.
C25_FrozenBeforeOpenOrEmpty ==
  \A k \in 1 .. 2 :
    (Returned(k) /\ (reward.chainTime[k] <= reward.openTime \/ reward.poolLiquidity = 0)) =>
      /\ reward.out[k].rewardGrowthGlobalX64 = reward.rewardGrowthGlobalX64
      /\ reward.out[k].rewardTotalEmissioned = reward.rewardTotalEmissioned
      /\ reward.out[k].lastUpdateTime = reward.lastUpdateTime

C25_Witness ==
  /\ Returned(1)
  /\ Returned(2)
  /\ reward.chainTime[1] = reward.openTime
  /\ reward.poolLiquidity > 0
  /\ reward.emissionsPerSecondX64 > 0
  /\ reward.lastUpdateTime > reward.openTime
  /\ reward.out[2].rewardGrowthGlobalX64 # reward.rewardGrowthGlobalX64

\* C26: from the same reward state and liquidity, chain times t1 < t2 give
\* rewardGrowthGlobalX64(t2) >= rewardGrowthGlobalX64(t1) and
\* rewardTotalEmissioned(t2) >= rewardTotalEmissioned(t1).
C26_MonotonicInChainTime ==
  (Returned(1) /\ Returned(2)) =>
    /\ reward.out[2].rewardGrowthGlobalX64 >= reward.out[1].rewardGrowthGlobalX64
    /\ reward.out[2].rewardTotalEmissioned >= reward.out[1].rewardTotalEmissioned

\* C40: updatePoolRewardInfos is idempotent in chain time: passing the
\* returned stream in again with the same chainTime and pool liquidity
\* returns rewardGrowthGlobalX64, rewardTotalEmissioned and lastUpdateTime
\* unchanged, for every initial reward state.
C40_IdempotentInChainTime ==
  \A k \in 1 .. 2 :
    reward.again[k].status # "none" =>
      /\ reward.again[k].status = "stream"
      /\ reward.again[k].rewardGrowthGlobalX64 = reward.out[k].rewardGrowthGlobalX64
      /\ reward.again[k].rewardTotalEmissioned = reward.out[k].rewardTotalEmissioned
      /\ reward.again[k].lastUpdateTime = reward.out[k].lastUpdateTime

C40_Witness ==
  /\ reward.again[2].status = "stream"
  /\ reward.out[2].rewardGrowthGlobalX64 > reward.rewardGrowthGlobalX64
  /\ reward.out[2].lastUpdateTime > reward.lastUpdateTime
  /\ reward.chainTime[2] < reward.endTime

\* ===================================================================
\* Part 10: PoolUtils.nextInitializedTickArrayStartIndex
\*
\* scan holds the pool's bitmaps as the set of allocated tick-array start
\* indexes, the pool's current tick, the arguments of the call and the
\* position of its loop.  The tick range, the tick-array size and the
\* bitmap size are scaled down; default and extension bitmaps keep their
\* layout (one default bitmap around zero, extension bitmaps of the same
\* span on both sides up to the tick boundary).
\* ===================================================================
MaxAllocated == 2   \* allocated tick arrays of the pool
MaxLoops == 6       \* loop iterations followed

TickCount == 2      \* TickQuery.tickCount(tickSpacing): ticks of one tick array
BitmapArrays == 2   \* tick arrays of one side of the default bitmap / of one extension bitmap
MAX_TICK == 9
MIN_TICK == -MAX_TICK

\* TickQuery.getArrayStartIndex(tickIndex, tickSpacing)
getArrayStartIndex(tickIndex) == (tickIndex \div TickCount) * TickCount

\* TickArrayBitmap.maxTickInTickarrayBitmap(tickSpacing)
maxTickInTickarrayBitmap == BitmapArrays * TickCount

StartIndexes == {getArrayStartIndex(t) : t \in MIN_TICK .. MAX_TICK}

SetMax(S) == CHOOSE x \in S : \A y \in S : y <= x
SetMin(S) == CHOOSE x \in S : \A y \in S : x <= y

\* first allocated array among found, nearest in the direction of the scan
nextBit(found, zeroForOne, otherwise) ==
  IF found = {} THEN [isInit |-> FALSE, tickIndex |-> otherwise]
  ELSE [isInit |-> TRUE, tickIndex |-> IF zeroForOne THEN SetMax(found) ELSE SetMin(found)]

\* TickArrayBitmap.nextInitializedTickArrayStartIndex(bitmap, lastTickArrayStartIndex, tickSpacing, zeroForOne)
defaultNextInitialized(allocated, lastIdx, zeroForOne) ==
  LET tickBoundary == maxTickInTickarrayBitmap
      nextIdx == IF zeroForOne THEN lastIdx - TickCount ELSE lastIdx + TickCount
  IN IF nextIdx < -tickBoundary \/ nextIdx >= tickBoundary
       THEN [isInit |-> FALSE, tickIndex |-> lastIdx]
       ELSE IF zeroForOne
         THEN nextBit({a \in allocated : -tickBoundary <= a /\ a <= nextIdx}, TRUE, -tickBoundary)
         ELSE nextBit({a \in allocated : nextIdx <= a /\ a < tickBoundary}, FALSE, tickBoundary - TickCount)

\* TickArrayBitmapExtensionUtils.nextInitializedTickArrayFromOneBitmap(lastTickArrayStartIndex,
\* tickSpacing, zeroForOne, exBitmapInfo)
nextInitializedTickArrayFromOneBitmapStays(allocated, lastIdx, zeroForOne) ==
  [isInit |-> FALSE, tickIndex |-> lastIdx]

nextInitializedTickArrayFromOneBitmap(allocated, lastIdx, zeroForOne) ==
  LET span == maxTickInTickarrayBitmap
      nextIdx == IF zeroForOne THEN lastIdx - TickCount ELSE lastIdx + TickCount
      minValue == (nextIdx \div span) * span
      maxValue == minValue + span
  IN IF nextIdx < getArrayStartIndex(MIN_TICK) \/ nextIdx > getArrayStartIndex(MAX_TICK)
       THEN [isInit |-> FALSE, tickIndex |-> nextIdx]
       ELSE IF zeroForOne
         THEN nextBit({a \in allocated : minValue <= a /\ a <= nextIdx}, TRUE, minValue)
         ELSE nextBit({a \in allocated : nextIdx <= a /\ a < maxValue}, FALSE, maxValue - TickCount)

\* the start index the loop begins from
firstStartIndex(tickCurrent, lastTickArrayStartIndex) == getArrayStartIndex(tickCurrent)

InitScan ==
  /\ ExecIdle
  /\ TxPartsIdle
  /\ fee = Idle
  /\ tables = Idle
  /\ reward = Idle
  /\ \E allocated \in SUBSET StartIndexes, tick \in MIN_TICK .. MAX_TICK,
        supplied \in StartIndexes, zeroForOne \in BOOLEAN :
       /\ Cardinality(allocated) <= MaxAllocated
       /\ scan = [allocated |-> allocated, tickCurrent |-> tick,
                  lastTickArrayStartIndex |-> supplied, zeroForOne |-> zeroForOne,
                  pc |-> "call", lastIdx |-> supplied, iterations |-> 0,
                  isExist |-> FALSE, nextStartIndex |-> 0]
  /\ hydrate = Idle
  /\ LatePartsIdle

\* the statement before the loop
ScanEnter ==
  /\ scan.pc = "call"
  /\ scan' = [scan EXCEPT !.pc = "default",
                          !.lastIdx = firstStartIndex(scan.tickCurrent, scan.lastTickArrayStartIndex)]
  /\ UNCHANGED <<execVars, txParts, fee, tables, reward, hydrate, lateParts>>

\* first half of the loop body: the default bitmap
ScanDefault ==
  /\ scan.pc = "default"
  /\ scan.iterations < MaxLoops
  /\ LET r == defaultNextInitialized(scan.allocated, scan.lastIdx, scan.zeroForOne)
     IN scan' = IF r.isInit
                  THEN [scan EXCEPT !.pc = "return", !.isExist = TRUE, !.nextStartIndex = r.tickIndex,
                                    !.iterations = @ + 1]
                  ELSE [scan EXCEPT !.pc = "extension", !.lastIdx = r.tickIndex, !.iterations = @ + 1]
  /\ UNCHANGED <<execVars, txParts, fee, tables, reward, hydrate, lateParts>>

\* second half: the extension bitmap, then the tick boundary test
ScanExtension ==
  /\ scan.pc = "extension"
  /\ LET r == nextInitializedTickArrayFromOneBitmap(scan.allocated, scan.lastIdx, scan.zeroForOne)
     IN scan' = IF r.isInit
                  THEN [scan EXCEPT !.pc = "return", !.isExist = TRUE, !.nextStartIndex = r.tickIndex]
                  ELSE IF r.tickIndex < MIN_TICK \/ r.tickIndex > MAX_TICK
                    THEN [scan EXCEPT !.pc = "return", !.isExist = FALSE, !.nextStartIndex = 0,
                                      !.lastIdx = r.tickIndex]
                    ELSE [scan EXCEPT !.pc = "default", !.lastIdx = r.tickIndex]
  /\ UNCHANGED <<execVars, txParts, fee, tables, reward, hydrate, lateParts>>

NextScan == ScanEnter \/ ScanDefault \/ ScanExtension

\* the function is synchronous: a started call runs on
SpecScan == InitScan /\ [][NextScan]_vars /\ WF_vars(NextScan)

\* extension bitmaps between the default bitmap and the tick boundary, one side
ExtensionBitmaps ==
  (getArrayStartIndex(MAX_TICK) + TickCount - maxTickInTickarrayBitmap + maxTickInTickarrayBitmap - 1)
    \div maxTickInTickarrayBitmap

Beyond(start) ==
  {a \in scan.allocated : IF scan.zeroForOne THEN a < start ELSE a > start}

NearestBeyond(start) ==
  IF Beyond(start) = {} THEN [isExist |-> FALSE, nextStartIndex |-> 0]
  ELSE [isExist |-> TRUE,
        nextStartIndex |-> IF scan.zeroForOne THEN SetMax(Beyond(start)) ELSE SetMin(Beyond(start))]

\* C28: the scan starts from the supplied lastTickArrayStartIndex: the result
\* is the nearest allocated tick array beyond the supplied index (two calls
\* whose supplied indexes straddle an allocated array differ).
C28_ScansFromSuppliedIndex ==
  scan.pc = "return" =>
    /\ scan.isExist = NearestBeyond(scan.lastTickArrayStartIndex).isExist
    /\ scan.nextStartIndex = NearestBeyond(scan.lastTickArrayStartIndex).nextStartIndex

\* ===================================================================
\* Part 11: PoolUtils.fetchComputeMultipleClmmInfo (fetchComputeClmmInfo is
\* the call with a one-pool list)
\*
\* hydrate holds the arguments, the pool accounts on the ledger, the
\* requests sent so far and rpcDataMap.  A bitmap-extension address is
\* written as the id of its pool.
\* ===================================================================
MaxPools == 2       \* length of poolList

PoolIds == {"p1", "p2", "p3"}
\* current ticks of the pools: one inside, one beyond the default bitmap
PoolTicks == {0, 3 * TickCount}

\* PoolUtils.tickRange(tickSpacing)
tickRange ==
  LET boundary == maxTickInTickarrayBitmap
  IN [maxTickBoundary |-> IF boundary > MAX_TICK THEN getArrayStartIndex(MAX_TICK) + TickCount
                                                  ELSE boundary,
      minTickBoundary |-> IF -boundary < MIN_TICK THEN getArrayStartIndex(MIN_TICK) ELSE -boundary]

\* PoolUtils.isOverflowDefaultTickarrayBitmap(tickSpacing, tickarrayStartIndexs)
isOverflowDefaultTickarrayBitmap(tickarrayStartIndexs) ==
  \E tickIndex \in tickarrayStartIndexs :
    \/ getArrayStartIndex(tickIndex) >= tickRange.maxTickBoundary
    \/ getArrayStartIndex(tickIndex) < tickRange.minTickBoundary

\* poolList.filter((p) => !rpcDataMap[p.id])
fetchRpcListAll(poolList, rpcDataMap) == poolList

fetchRpcList(poolList, rpcDataMap) == SelectSeq(poolList, LAMBDA p : rpcDataMap[p] = "none")

\* poolList.map(getPdaExBitmapAccount)
pdaList(poolList) == poolList

PoolLists == UNION {[1 .. n -> PoolIds] : n \in 0 .. MaxPools}

InitHydrate ==
  /\ ExecIdle
  /\ TxPartsIdle
  /\ fee = Idle
  /\ tables = Idle
  /\ reward = Idle
  /\ scan = Idle
  /\ \E poolList \in PoolLists, supplied \in SUBSET PoolIds, onLedger \in SUBSET PoolIds,
        tickCurrent \in [PoolIds -> PoolTicks] :
       hydrate = [poolList |-> poolList, supplied |-> supplied, onLedger |-> onLedger,
                  tickCurrent |-> tickCurrent,
                  rpcDataMap |-> [p \in PoolIds |-> IF p \in supplied THEN "supplied" ELSE "none"],
                  requests |-> <<>>, pc |-> "call"]
  /\ LatePartsIdle

\* up to the first await: the pool accounts are requested
HydrateRequestPools ==
  /\ hydrate.pc = "call"
  /\ hydrate' = [hydrate EXCEPT
       !.requests = Append(@, [kind |-> "getMultipleAccountsInfo",
                               keys |-> Range(fetchRpcList(hydrate.poolList, hydrate.rpcDataMap))]),
       !.pc = "pools"]
  /\ UNCHANGED <<execVars, txParts, fee, tables, reward, scan, lateParts>>

\* the pool accounts arrive and are written to rpcDataMap; the extension accounts are requested
HydrateRequestExBitmaps ==
  /\ hydrate.pc = "pools"
  /\ LET fetched == hydrate.requests[1].keys \cap hydrate.onLedger
     IN hydrate' = [hydrate EXCEPT
          !.rpcDataMap = [p \in PoolIds |-> IF p \in fetched THEN "fetched" ELSE @[p]],
          !.requests = Append(@, [kind |-> "fetchExBitmaps", keys |-> Range(pdaList(hydrate.poolList))]),
          !.pc = "exBitmaps"]
  /\ UNCHANGED <<execVars, txParts, fee, tables, reward, scan, lateParts>>

\* the extension accounts arrive and the result is built
HydrateReturn ==
  /\ hydrate.pc = "exBitmaps"
  /\ hydrate' = [hydrate EXCEPT
       !.pc = IF \E p \in Range(hydrate.poolList) : hydrate.rpcDataMap[p] = "none"
                THEN "TypeError" ELSE "return"]
  /\ UNCHANGED <<execVars, txParts, fee, tables, reward, scan, lateParts>>

NextHydrate == HydrateRequestPools \/ HydrateRequestExBitmaps \/ HydrateReturn

SpecHydrate == InitHydrate /\ [][NextHydrate]_vars

\* the requests of one kind sent so far
RequestsOf(kind) == {n \in 1 .. Len(hydrate.requests) : hydrate.requests[n].kind = kind}

\* C29: a bitmap-extension account is requested only for a pool whose
\* current tick lies outside the default bitmap range
\* (isOverflowDefaultTickarrayBitmap true); hydrating pools inside the range
\* requests no extension account.
C29_ExtensionOnlyOutsideDefaultRange ==
  \A n \in RequestsOf("fetchExBitmaps") :
    \A p \in hydrate.requests[n].keys :
      isOverflowDefaultTickarrayBitmap({hydrate.tickCurrent[p]})

\* C30: one call sends at most two batch account requests whatever the
\* number of pools; the pool-account request holds no pool that was
\* pre-supplied in rpcDataMap; a pre-supplied entry is never replaced by
\* fetched data.
C30_TwoRequestsNoRefetch ==
  /\ Len(hydrate.requests) <= 2
  /\ \A n \in RequestsOf("getMultipleAccountsInfo") :
       hydrate.requests[n].keys \cap hydrate.supplied = {}
  /\ \A p \in hydrate.supplied : hydrate.rpcDataMap[p] = "supplied"

C30_Witness ==
  /\ hydrate.pc = "return"
  /\ Len(hydrate.poolList) = 2
  /\ Len(hydrate.requests) = 2
  /\ hydrate.poolList[1] \in hydrate.supplied
  /\ hydrate.poolList[1] \in hydrate.onLedger
  /\ hydrate.rpcDataMap[hydrate.poolList[2]] = "fetched"

\* ===================================================================
\* Part 14: Raydium.fetchAvailabilityStatus (src/raydium/raydium.ts)
\*
\* avail.availability is this.availability ("undefined" for a key the
\* object does not hold), avail.last the outcome of the last call and the
\* data the API returned to it.
\* ===================================================================
earlyParts == <<txParts, fee, tables, reward, scan, hydrate>>

EarlyPartsIdle ==
  /\ TxPartsIdle
  /\ fee = Idle
  /\ tables = Idle
  /\ reward = Idle
  /\ scan = Idle
  /\ hydrate = Idle

Features == {"swap", "createConcentratedPosition", "addConcentratedPosition",
             "addStandardPosition", "removeConcentratedPosition", "removeStandardPosition",
             "addFarm", "removeFarm"}
AvailabilityKeys == Features \cup {"all"}

\* what api.fetchAvailabilityStatus() may resolve with
AvailabilityData ==
  {d \in [AvailabilityKeys -> {"true", "false", "undefined"}] :
     \A f \in Features : d[f] # "undefined"}

NoData == [k \in AvailabilityKeys |-> "undefined"]

\* the object assigned to this.availability
storedAvailabilityAsReturned(data) == data

storedAvailability(data) ==
  LET isAllDisabled == data["all"] = "false"
  IN [k \in AvailabilityKeys |->
        IF k = "all" THEN data["all"]
        ELSE IF isAllDisabled THEN "false" ELSE data[k]]

InitAvailability ==
  /\ ExecIdle
  /\ EarlyPartsIdle
  /\ quote = Idle
  /\ slip = Idle
  /\ avail = [availability |-> NoData, last |-> [outcome |-> "none", data |-> NoData]]
  /\ epoch = Idle

\* one call of fetchAvailabilityStatus(skipCheck), up to its return: skipCheck
\* set, the request failed and was caught, or data arrived
FetchAvailabilityStatus ==
  /\ \/ avail' = [avail EXCEPT !.last = [outcome |-> "skipped", data |-> NoData]]
     \/ avail' = [avail EXCEPT !.last = [outcome |-> "caught", data |-> NoData]]
     \/ \E data \in AvailabilityData :
          avail' = [availability |-> storedAvailability(data),
                    last |-> [outcome |-> "data", data |-> data]]
  /\ UNCHANGED <<execVars, earlyParts, quote, slip, epoch>>

NextAvailability == FetchAvailabilityStatus

SpecAvailability == InitAvailability /\ [][NextAvailability]_vars

\* C34: after fetchAvailabilityStatus received availability data with
\* all === false, every sub-feature flag stored in Raydium.availability is
\* false, whatever the individual flags of the data are.
C34_AllDisabledDisablesEveryFeature ==
  (avail.last.outcome = "data" /\ avail.last.data["all"] = "false") =>
    \A f \in Features : avail.availability[f] = "false"

C34_Witness ==
  /\ avail.last.outcome = "data"
  /\ avail.last.data["all"] = "false"
  /\ \A f \in Features : avail.last.data[f] = "true"
  /\ \A f \in Features : avail.availability[f] = "false"

\* ===================================================================
\* Part 15: Raydium.fetchEpochInfo (src/raydium/raydium.ts)
\*
\* epoch.now is Date.now() in ticks, epoch.cache is this._epochInfo,
\* epoch.pending the `fetched` stamps of the calls that await
\* connection.getEpochInfo(), epoch.last the last step taken.  The value the
\* node answers with is written as the time of the answer.
\* ===================================================================
MaxNow == 6         \* the clock stops here
MaxInFlight == 2    \* calls awaiting getEpochInfo at once

EpochTtl == 2       \* 1000 * 30 ms, in ticks

NoCache == [has |-> FALSE, fetched |-> 0, value |-> 0]

\* this._epochInfo && Date.now() - this._epochInfo.fetched <= 1000 * 30
isFreshStrict(cache, now) == cache.has /\ now - cache.fetched < EpochTtl

isFresh(cache, now) == cache.has /\ now - cache.fetched <= EpochTtl

InitEpoch ==
  /\ ExecIdle
  /\ EarlyPartsIdle
  /\ quote = Idle
  /\ slip = Idle
  /\ avail = Idle
  /\ epoch = [now |-> 0, cache |-> NoCache, pending |-> <<>>,
              last |-> [kind |-> "none", at |-> 0, before |-> NoCache, value |-> 0, rpc |-> FALSE]]

\* time passes
EpochTick ==
  /\ epoch.now < MaxNow
  /\ epoch' = [epoch EXCEPT !.now = @ + 1]
  /\ UNCHANGED <<execVars, earlyParts, quote, slip, avail>>

\* fetchEpochInfo() is called: it returns the cached value, or stamps
\* `fetched` and awaits connection.getEpochInfo()
FetchEpochInfo ==
  /\ Len(epoch.pending) < MaxInFlight
  /\ epoch' =
       IF isFresh(epoch.cache, epoch.now)
       THEN [epoch EXCEPT !.last = [kind |-> "cached", at |-> epoch.now, before |-> epoch.cache,
                                    value |-> epoch.cache.value, rpc |-> FALSE]]
       ELSE [epoch EXCEPT !.pending = Append(@, epoch.now),
                          !.last = [kind |-> "getEpochInfo", at |-> epoch.now,
                                    before |-> epoch.cache, value |-> 0, rpc |-> TRUE]]
  /\ UNCHANGED <<execVars, earlyParts, quote, slip, avail>>

WithoutCall(pending, n) == [x \in 1 .. (Len(pending) - 1) |-> IF x < n THEN pending[x] ELSE pending[x + 1]]

\* getEpochInfo of pending call n resolves: the cache is assigned and returned
EpochResolve ==
  /\ \E n \in DOMAIN epoch.pending :
       epoch' = [epoch EXCEPT !.cache = [has |-> TRUE, fetched |-> epoch.pending[n], value |-> epoch.now],
                              !.pending = WithoutCall(@, n),
                              !.last = [kind |-> "resolved", at |-> epoch.now, before |-> epoch.cache,
                                        value |-> epoch.now, rpc |-> FALSE]]
  /\ UNCHANGED <<execVars, earlyParts, quote, slip, avail>>

\* getEpochInfo of pending call n rejects: the assignment is never reached
EpochReject ==
  /\ \E n \in DOMAIN epoch.pending :
       epoch' = [epoch EXCEPT !.pending = WithoutCall(@, n),
                              !.last = [kind |-> "rejected", at |-> epoch.now, before |-> epoch.cache,
                                        value |-> 0, rpc |-> FALSE]]
  /\ UNCHANGED <<execVars, earlyParts, quote, slip, avail>>

NextEpoch == EpochTick \/ FetchEpochInfo \/ EpochResolve \/ EpochReject

SpecEpoch == InitEpoch /\ [][NextEpoch]_vars

\* C35: fetchEpochInfo issues getEpochInfo only when no epoch value is cached
\* or the cached one is older than 30 seconds; otherwise it returns the cached
\* value without a request; a failed request leaves the cached value and its
\* timestamp as they were.
C35_EpochCache ==
  /\ epoch.last.kind = "getEpochInfo" =>
       (~epoch.last.before.has \/ epoch.last.at - epoch.last.before.fetched > EpochTtl)
  /\ (epoch.last.kind \in {"getEpochInfo", "cached"}
        /\ epoch.last.before.has
        /\ epoch.last.at - epoch.last.before.fetched <= EpochTtl) =>
       /\ epoch.last.kind = "cached"
       /\ ~epoch.last.rpc
       /\ epoch.last.value = epoch.last.before.value
  /\ epoch.last.kind = "rejected" => epoch.cache = epoch.last.before

C35_Witness ==
  /\ epoch.last.kind = "rejected"
  /\ epoch.cache.has
  /\ epoch.now - epoch.cache.fetched > EpochTtl
  /\ epoch.pending = <<>>

\* ===================================================================
\* Part 13: slippage bounds of computeAmountOut / computeAmountIn
\* (src/raydium/clmm/utils/pool.ts)
\*
\* The slippage is the fraction slip.n / SlipGrid; the fixed-point scale
\* 10000000000 of the source is SlippageScale.  No mint levies a transfer
\* fee.
\* ===================================================================
MaxExpected == 12   \* largest expected amount
SlipGrid == 20      \* the slippage tolerances are n / SlipGrid, 0 <= n < SlipGrid

SlippageScale == 10 \* new BN(10000000000)

\* getTransferAmountFeeV2(amount, undefined, epochInfo, addFee).amount
getTransferAmountFeeV2(amount) == amount

\* Math.floor((1 - slippage) * 10000000000)
scaledOneMinus(n) == ((SlipGrid - n) * SlippageScale) \div SlipGrid

\* Math.floor((1 + slippage) * 10000000000)
scaledOnePlus(n) == ((SlipGrid + n) * SlippageScale) \div SlipGrid

\* _expectedAmountOut.mul(...).div(new BN(10000000000)), then the transfer fee
minAmountOut(expected, n) ==
  getTransferAmountFeeV2((expected * scaledOneMinus(n)) \div SlippageScale)

\* _expectedAmountIn.mul(...).div(new BN(10000000000)), then the transfer fee
maxAmountIn(expected, n) ==
  getTransferAmountFeeV2((expected * scaledOnePlus(n)) \div SlippageScale)

InitSlippage ==
  /\ ExecIdle
  /\ EarlyPartsIdle
  /\ quote = Idle
  /\ avail = Idle
  /\ epoch = Idle
  /\ \E expected \in 0 .. MaxExpected, n \in 0 .. (SlipGrid - 1) :
       slip = [expected |-> expected, n |-> n, pc |-> "call", minAmountOut |-> 0, maxAmountIn |-> 0]

ComputeAmountOut ==
  /\ slip.pc = "call"
  /\ slip' = [slip EXCEPT !.pc = "computeAmountOut",
                          !.minAmountOut = minAmountOut(slip.expected, slip.n)]
  /\ UNCHANGED <<execVars, earlyParts, quote, avail, epoch>>

ComputeAmountIn ==
  /\ slip.pc = "call"
  /\ slip' = [slip EXCEPT !.pc = "computeAmountIn",
                          !.maxAmountIn = maxAmountIn(slip.expected, slip.n)]
  /\ UNCHANGED <<execVars, earlyParts, quote, avail, epoch>>

NextSlippage == ComputeAmountOut \/ ComputeAmountIn

SpecSlippage == InitSlippage /\ [][NextSlippage]_vars

\* floor and ceiling of e * p / q for non-negative e, p and positive q
FloorOf(e, p, q) == (e * p) \div q

CeilOf(e, p, q) == (e * p + q - 1) \div q

\* C32: with no transfer fee, minAmountOut is the floor of
\* expectedAmountOut * (1 - slippage) and maxAmountIn is the ceiling of
\* expectedAmountIn * (1 + slippage), for every expected amount and every
\* slippage in [0, 1).
C32_SlippageFloorAndCeiling ==
  /\ slip.pc = "computeAmountOut" =>
       slip.minAmountOut = FloorOf(slip.expected, SlipGrid - slip.n, SlipGrid)
  /\ slip.pc = "computeAmountIn" =>
       slip.maxAmountIn = CeilOf(slip.expected, SlipGrid + slip.n, SlipGrid)

\* ===================================================================
\* Part 12: the swap quotes PoolUtils.getOutputAmountAndRemainAccounts and
\* PoolUtils.getInputAmountAndRemainAccounts (src/raydium/clmm/utils/pool.ts)
\*
\* quote holds the pool as in Part 10 (allocated tick arrays, current tick),
\* the direction and kind of the trade and the results of two quotes of the
\* same pool, for the amounts quote.amount and quote.amount + 1.  The
\* tick-array cache holds every allocated tick array.  Swap stepping
\* (SwapMath.swapCompute) follows section 4.3 of the specification with one
\* step per tick array: each array takes ArrayIn units of input, the price
\* falls from one array to the next, the fee is charged on the gross input
\* of each step.
\* ===================================================================
MaxAmount == 5      \* largest amount quoted first

ArrayIn == 2              \* gross input one tick array absorbs
TradeFeeRate == 1         \* ammConfig.tradeFeeRate, parts of FeeRateDenominator
FeeRateDenominator == 4
TopPrice == 5             \* output per PriceDenominator units of net input in the first array
PriceDenominator == 2
NEGATIVE_ONE == 0 - 1

\* getPdaTickArrayAddress(programId, poolId, startIndex).publicKey
getPdaTickArrayAddress(startIndex) == <<"tick_array", startIndex>>

\* TickUtils.checkTickArrayIsInitialized(mergeTickArrayBitmap(tickArrayBitmap), tick, tickSpacing)
checkTickArrayIsInitialized(allocated, tick) ==
  LET startIndex == getArrayStartIndex(tick)
  IN [isInitialized |-> /\ startIndex \in allocated
                        /\ -maxTickInTickarrayBitmap <= startIndex
                        /\ startIndex < maxTickInTickarrayBitmap,
      startIndex |-> startIndex]

\* TickArrayBitmapExtensionUtils.checkTickArrayIsInit(startIndex, tickSpacing, exBitmapInfo)
checkTickArrayIsInit(allocated, startIndex) ==
  [isInitialized |-> /\ startIndex \in allocated
                     /\ (startIndex < -maxTickInTickarrayBitmap \/ startIndex >= maxTickInTickarrayBitmap),
   startIndex |-> startIndex]

\* the loop of PoolUtils.nextInitializedTickArrayStartIndex, as Part 10 steps it
RECURSIVE scanLoop(_, _, _, _)
scanLoop(allocated, lastIdx, zeroForOne, fuel) ==
  LET d == defaultNextInitialized(allocated, lastIdx, zeroForOne)
  IN IF d.isInit THEN [isExist |-> TRUE, nextStartIndex |-> d.tickIndex]
     ELSE LET e == nextInitializedTickArrayFromOneBitmap(allocated, d.tickIndex, zeroForOne)
          IN IF e.isInit THEN [isExist |-> TRUE, nextStartIndex |-> e.tickIndex]
             ELSE IF e.tickIndex < MIN_TICK \/ e.tickIndex > MAX_TICK \/ fuel = 0
               THEN [isExist |-> FALSE, nextStartIndex |-> 0]
               ELSE scanLoop(allocated, e.tickIndex, zeroForOne, fuel - 1)

\* PoolUtils.nextInitializedTickArrayStartIndex(poolInfo, lastTickArrayStartIndex, zeroForOne)
nextInitializedTickArrayStartIndex(allocated, tickCurrent, lastTickArrayStartIndex, zeroForOne) ==
  scanLoop(allocated, firstStartIndex(tickCurrent, lastTickArrayStartIndex), zeroForOne, MaxLoops)

NoTickArray == [isExist |-> FALSE, startIndex |-> 0, nextAccountMeta |-> <<>>]

\* PoolUtils.getFirstInitializedTickArray(poolInfo, zeroForOne)
getFirstInitializedTickArrayCurrentOnly(allocated, tickCurrent, zeroForOne) ==
  LET c == checkTickArrayIsInitialized(allocated, tickCurrent)
  IN IF c.isInitialized
       THEN [isExist |-> TRUE, startIndex |-> c.startIndex,
             nextAccountMeta |-> getPdaTickArrayAddress(c.startIndex)]
       ELSE NoTickArray

getFirstInitializedTickArray(allocated, tickCurrent, zeroForOne) ==
  LET c == IF isOverflowDefaultTickarrayBitmap({tickCurrent})
             THEN checkTickArrayIsInit(allocated, getArrayStartIndex(tickCurrent))
             ELSE checkTickArrayIsInitialized(allocated, tickCurrent)
      n == nextInitializedTickArrayStartIndex(allocated, tickCurrent,
                                              getArrayStartIndex(tickCurrent), zeroForOne)
  IN IF c.isInitialized
       THEN [isExist |-> TRUE, startIndex |-> c.startIndex,
             nextAccountMeta |-> getPdaTickArrayAddress(c.startIndex)]
       ELSE IF n.isExist
         THEN [isExist |-> TRUE, startIndex |-> n.nextStartIndex,
               nextAccountMeta |-> getPdaTickArrayAddress(n.nextStartIndex)]
         ELSE NoTickArray

\* TickUtils.searchLowBitFromStart / searchHightBitFromStart with expectedCount 1:
\* the nearest allocated tick array at or below / at or above the offset
searchLowBitFromStart(allocated, offset) ==
  LET low == {a \in allocated : a <= offset * TickCount}
  IN IF low = {} THEN <<>> ELSE <<SetMax(low)>>

searchHightBitFromStart(allocated, offset) ==
  LET high == {a \in allocated : a >= offset * TickCount}
  IN IF high = {} THEN <<>> ELSE <<SetMin(high)>>

\* PoolUtils.preInitializedTickArrayStartIndex(poolInfo, zeroForOne)
preInitializedTickArrayStartIndex(allocated, tickCurrent, zeroForOne) ==
  LET currentOffset == tickCurrent \div TickCount
      result == IF ~zeroForOne THEN searchLowBitFromStart(allocated, currentOffset - 1)
                               ELSE searchHightBitFromStart(allocated, currentOffset + 1)
  IN IF Len(result) > 0 THEN [isExist |-> TRUE, nextStartIndex |-> result[1]]
                        ELSE [isExist |-> FALSE, nextStartIndex |-> 0]

\* ---- swap stepping (section 4.3) ----
CeilDiv(a, b) == (a + b - 1) \div b

\* price of the n-th tick array the trade walks through: it falls as the trade goes on
priceOf(n) == IF TopPrice - n > 1 THEN TopPrice - n ELSE 1

\* fee of a step with gross input g
stepFee(g) == CeilDiv(g * TradeFeeRate, FeeRateDenominator)

\* output of a step with gross input g in the n-th array
stepOut(g, n) == ((g - stepFee(g)) * priceOf(n)) \div PriceDenominator

\* most a step in the n-th array gives out
arrayOut(n) == stepOut(ArrayIn, n)

\* gross input of a step that gives out o in the n-th array: the least that does
stepIn(o, n) ==
  LET enough == {g \in 0 .. ArrayIn : stepOut(g, n) >= o}
  IN IF enough = {} THEN ArrayIn ELSE SetMin(enough)

\* the next allocated tick array beyond startIndex in the direction of the trade
nextTickArray(allocated, zeroForOne, startIndex) ==
  LET beyond == {a \in allocated : IF zeroForOne THEN a < startIndex ELSE a > startIndex}
  IN IF beyond = {} THEN [isExist |-> FALSE, nextStartIndex |-> 0]
     ELSE [isExist |-> TRUE, nextStartIndex |-> IF zeroForOne THEN SetMax(beyond) ELSE SetMin(beyond)]

\* the step loop: startIndex is the tick array of the step, n counts the
\* arrays walked, remaining is the unsigned amount still to trade
RECURSIVE swapSteps(_, _, _, _, _, _, _, _)
swapSteps(allocated, zeroForOne, baseInput, startIndex, n, remaining, calculated, st) ==
  LET most == IF baseInput THEN ArrayIn ELSE arrayOut(n)
      part == IF remaining < most THEN remaining ELSE most
      gross == IF baseInput THEN part ELSE stepIn(part, n)
      moved == IF baseInput THEN stepOut(part, n) ELSE gross
      after == [st EXCEPT !.feeAmount = @ + stepFee(gross)]
      next == nextTickArray(allocated, zeroForOne, startIndex)
  IN IF remaining - part = 0
       THEN [after EXCEPT !.allTrade = TRUE, !.amountCalculated = calculated + moved]
       ELSE IF ~next.isExist
         THEN [after EXCEPT !.allTrade = FALSE, !.amountCalculated = calculated + moved]
         ELSE swapSteps(allocated, zeroForOne, baseInput, next.nextStartIndex, n + 1,
                        remaining - part, calculated + moved,
                        [after EXCEPT !.accounts = Append(@, getPdaTickArrayAddress(next.nextStartIndex))])

\* SwapMath.swapCompute(..., amountSpecified, lastSavedTickArrayStartIndex, sqrtPriceLimitX64,
\* catchLiquidityInsufficient): a positive amountSpecified is an input, a negative one an
\* output; the amount calculated has the opposite sign
swapCompute(allocated, zeroForOne, amountSpecified, lastSavedTickArrayStartIndex, catchLiquidityInsufficient) ==
  LET baseInput == amountSpecified > 0
      remaining == IF baseInput THEN amountSpecified ELSE -amountSpecified
      r == swapSteps(allocated, zeroForOne, baseInput, lastSavedTickArrayStartIndex, 0, remaining, 0,
                     [allTrade |-> TRUE, amountCalculated |-> 0, accounts |-> <<>>, feeAmount |-> 0])
      signed == [r EXCEPT !.amountCalculated = IF baseInput THEN -@ ELSE @]
  IN IF ~r.allTrade /\ ~catchLiquidityInsufficient
       THEN [threw |-> TRUE, allTrade |-> FALSE, amountCalculated |-> 0, accounts |-> <<>>, feeAmount |-> 0]
       ELSE [threw |-> FALSE, allTrade |-> signed.allTrade, amountCalculated |-> signed.amountCalculated,
             accounts |-> signed.accounts, feeAmount |-> signed.feeAmount]

\* ---- the two quotes ----
NotQuoted ==
  [status |-> "none", stepped |-> FALSE, allTrade |-> FALSE, expected |-> 0, feeAmount |-> 0,
   remainingAccounts |-> <<>>, accounts |-> <<>>]

InvalidTickArray == [NotQuoted EXCEPT !.status = "Invalid tick array"]

\* what a quote returns after swapCompute: the accounts collected before the
\* call, then the accounts of the steps
quoted(before, s, expected) ==
  IF s.threw THEN [NotQuoted EXCEPT !.status = "liquidity insufficient", !.stepped = TRUE]
  ELSE [status |-> "returned", stepped |-> TRUE, allTrade |-> s.allTrade, expected |-> expected,
        feeAmount |-> s.feeAmount, remainingAccounts |-> before \o s.accounts, accounts |-> s.accounts]

\* PoolUtils.getOutputAmountAndRemainAccounts(poolInfo, tickArrayCache, inputTokenMint, inputAmount,
\* undefined, catchLiquidityInsufficient)
getOutputAmountAndRemainAccountsUnsigned(allocated, tickCurrent, zeroForOne, inputAmount, catchLiquidityInsufficient) ==
  LET first == getFirstInitializedTickArray(allocated, tickCurrent, zeroForOne)
      s == swapCompute(allocated, zeroForOne, inputAmount, first.startIndex, catchLiquidityInsufficient)
  IN IF ~first.isExist THEN InvalidTickArray
     ELSE quoted(<<first.nextAccountMeta>>, s, s.amountCalculated)

getOutputAmountAndRemainAccounts(allocated, tickCurrent, zeroForOne, inputAmount, catchLiquidityInsufficient) ==
  LET first == getFirstInitializedTickArray(allocated, tickCurrent, zeroForOne)
      s == swapCompute(allocated, zeroForOne, inputAmount, first.startIndex, catchLiquidityInsufficient)
  IN IF ~first.isExist THEN InvalidTickArray
     ELSE quoted(<<first.nextAccountMeta>>, s, s.amountCalculated * NEGATIVE_ONE)

\* PoolUtils.getInputAmountAndRemainAccounts(poolInfo, tickArrayCache, outputTokenMint, outputAmount);
\* searchThrows: the search of the previous tick array throws and is caught
getInputAmountAndRemainAccountsFirstLast(allocated, tickCurrent, zeroForOne, outputAmount, searchThrows) ==
  LET first == getFirstInitializedTickArray(allocated, tickCurrent, zeroForOne)
      preTick == preInitializedTickArrayStartIndex(allocated, tickCurrent, zeroForOne)
      pre == IF ~searchThrows /\ preTick.isExist
               THEN <<getPdaTickArrayAddress(preTick.nextStartIndex)>> ELSE <<>>
      s == swapCompute(allocated, zeroForOne, outputAmount * NEGATIVE_ONE, first.startIndex, FALSE)
  IN IF ~first.isExist THEN InvalidTickArray
     ELSE quoted(pre, [s EXCEPT !.accounts = @ \o <<first.nextAccountMeta>>], s.amountCalculated)

getInputAmountAndRemainAccounts(allocated, tickCurrent, zeroForOne, outputAmount, searchThrows) ==
  LET first == getFirstInitializedTickArray(allocated, tickCurrent, zeroForOne)
      preTick == preInitializedTickArrayStartIndex(allocated, tickCurrent, zeroForOne)
      pre == IF ~searchThrows /\ preTick.isExist
               THEN <<getPdaTickArrayAddress(preTick.nextStartIndex)>> ELSE <<>>
      s == swapCompute(allocated, zeroForOne, outputAmount * NEGATIVE_ONE, first.startIndex, FALSE)
  IN IF ~first.isExist THEN InvalidTickArray
     ELSE quoted(pre \o <<first.nextAccountMeta>>, s, s.amountCalculated)

InitQuote ==
  /\ ExecIdle
  /\ EarlyPartsIdle
  /\ slip = Idle
  /\ avail = Idle
  /\ epoch = Idle
  /\ \E allocated \in SUBSET StartIndexes, tick \in MIN_TICK .. MAX_TICK, zeroForOne \in BOOLEAN,
        exactIn \in BOOLEAN, flag \in BOOLEAN, amount \in 1 .. MaxAmount :
       /\ Cardinality(allocated) <= MaxAllocated
       /\ quote = [allocated |-> allocated, tickCurrent |-> tick, zeroForOne |-> zeroForOne,
                   exactIn |-> exactIn, flag |-> flag, amount |-> amount,
                   results |-> <<NotQuoted, NotQuoted>>]

\* the k-th quote of the pool, exact-in: quote.flag is catchLiquidityInsufficient
QuoteOutputAmount(k) ==
  /\ quote.exactIn
  /\ quote.results[k].status = "none"
  /\ quote' = [quote EXCEPT !.results[k] =
                 getOutputAmountAndRemainAccounts(quote.allocated, quote.tickCurrent, quote.zeroForOne,
                                                  quote.amount + k - 1, quote.flag)]
  /\ UNCHANGED <<execVars, earlyParts, slip, avail, epoch>>

\* the k-th quote of the pool, exact-out: quote.flag is whether the search of
\* the previous tick array throws
QuoteInputAmount(k) ==
  /\ ~quote.exactIn
  /\ quote.results[k].status = "none"
  /\ quote' = [quote EXCEPT !.results[k] =
                 getInputAmountAndRemainAccounts(quote.allocated, quote.tickCurrent, quote.zeroForOne,
                                                 quote.amount + k - 1, quote.flag)]
  /\ UNCHANGED <<execVars, earlyParts, slip, avail, epoch>>

NextQuote == \E k \in 1 .. 2 : QuoteOutputAmount(k) \/ QuoteInputAmount(k)

SpecQuote == InitQuote /\ [][NextQuote]_vars

\* the tick array of the pool's current tick
CurrentArray == getArrayStartIndex(quote.tickCurrent)

\* the allocated tick arrays beyond start in the direction of the trade
InDirection(start) ==
  {a \in quote.allocated : IF quote.zeroForOne THEN a < start ELSE a > start}

Nearest(S) == IF quote.zeroForOne THEN SetMax(S) ELSE SetMin(S)

Quoted == {k \in 1 .. 2 : quote.results[k].status # "none"}

\* C31: a quote, exact-in or exact-out, fails with "Invalid tick array"
\* exactly when neither the tick array of the current tick is allocated nor
\* any allocated tick array lies in the direction of the trade, and then swap
\* stepping is not invoked.
C31_InvalidTickArrayExactlyWhenNoneReachable ==
  \A k \in Quoted :
    /\ quote.results[k].status = "Invalid tick array"
         <=> (CurrentArray \notin quote.allocated /\ InDirection(CurrentArray) = {})
    /\ quote.results[k].status = "Invalid tick array" => ~quote.results[k].stepped
    /\ quote.results[k].status # "Invalid tick array" => quote.results[k].stepped

C31_Witness ==
  /\ quote.results[1].status = "Invalid tick array"
  /\ quote.results[2].status = "Invalid tick array"
  /\ quote.allocated # {}
  /\ ~quote.exactIn

C31_WitnessQuoted ==
  /\ quote.results[1].status = "returned"
  /\ CurrentArray \notin quote.allocated
  /\ isOverflowDefaultTickarrayBitmap({quote.tickCurrent})

C33_WitnessExactOut ==
  /\ ~quote.exactIn
  /\ quote.results[1].status = "returned"
  /\ quote.results[2].status = "returned"
  /\ quote.results[1].expected < quote.results[2].expected
  /\ quote.results[2].accounts # <<>>

\* the first initialized tick array of the trade
FirstArray ==
  IF CurrentArray \in quote.allocated THEN CurrentArray ELSE Nearest(InDirection(CurrentArray))

\* the allocated tick arrays behind the current one
Behind == {a \in quote.allocated : IF quote.zeroForOne THEN a > CurrentArray ELSE a < CurrentArray}

\* accs are addresses of allocated tick arrays beyond start, in the order of the trade
RECURSIVE StepAccounts(_, _)
StepAccounts(accs, start) ==
  \/ accs = <<>>
  \/ /\ InDirection(start) # {}
     /\ Head(accs) = getPdaTickArrayAddress(Nearest(InDirection(start)))
     /\ StepAccounts(Tail(accs), Nearest(InDirection(start)))

\* C36: the remainingAccounts of an exact-in quote are the address of the
\* first initialized tick array followed by the accounts of the swap steps
\* in order; those of an exact-out quote are the same sequence preceded by at
\* most one more address, that of a previously initialized tick array.
C36_RemainingAccountsOrder ==
  \A k \in Quoted :
    quote.results[k].status = "returned" =>
      LET r == quote.results[k]
          base == <<getPdaTickArrayAddress(FirstArray)>> \o r.accounts
      IN /\ StepAccounts(r.accounts, FirstArray)
         /\ quote.exactIn => r.remainingAccounts = base
         /\ ~quote.exactIn =>
              \/ r.remainingAccounts = base
              \/ \E a \in Behind : r.remainingAccounts = <<getPdaTickArrayAddress(a)>> \o base

C36_Witness ==
  /\ ~quote.exactIn
  /\ quote.results[2].status = "returned"
  /\ Len(quote.results[2].remainingAccounts) = 2
  /\ quote.results[2].remainingAccounts[2] = getPdaTickArrayAddress(FirstArray)
  /\ quote.results[2].accounts = <<>>

C36_WitnessExactIn ==
  /\ quote.exactIn
  /\ quote.results[2].status = "returned"
  /\ Len(quote.results[2].remainingAccounts) = 2
  /\ Len(quote.results[2].accounts) = 1
====
